---- MODULE Spec2Model ----
(***************************************************************************)
(* A model of the go-proxy caching module proxy: the request router, the   *)
(* four verb handlers (list, info, mod, zip), the cache file helpers and   *)
(* the file system and RWMutex they run on.  Handlers of concurrent        *)
(* requests interleave at every lock operation and file-system call.       *)
(***************************************************************************)
EXTENDS Integers, Sequences, FiniteSets, TLC

\* ------------------------------------------------------------------ bounds
\* Number of handler goroutines that can be in flight at once.
NProcs == 2
\* Total number of requests served in one behaviour.
MaxReqs == 3
\* Number of chunks (one byte each here) in an archive payload.
ZipChunks == 2

Procs == 1..NProcs

\* ----------------------------------------------------------------- strings
\* A string is a sequence of one-character strings.
HasSuffix(s, suffix) ==
    /\ Len(s) >= Len(suffix)
    /\ SubSeq(s, Len(s) - Len(suffix) + 1, Len(s)) = suffix

HasPrefix(s, prefix) ==
    /\ Len(s) >= Len(prefix)
    /\ SubSeq(s, 1, Len(prefix)) = prefix

TrimPrefix(s, prefix) ==
    IF HasPrefix(s, prefix) THEN SubSeq(s, Len(prefix) + 1, Len(s)) ELSE s

Range(s) == {s[i] : i \in 1..Len(s)}

\* strings.Contains(s, c) for a one-character c
Contains(s, c) == c \in Range(s)

TrimSuffix(s, suffix) ==
    IF HasSuffix(s, suffix) THEN SubSeq(s, 1, Len(s) - Len(suffix)) ELSE s

\* The request paths clients send (r.URL.Path), one per verb, one that no
\* verb accepts.
URLList == <<"/", "m", "/", "@", "v", "/", "l", "i", "s", "t">>
URLInfo == <<"/", "m", "/", "@", "v", "/", "1", ".", "i", "n", "f", "o">>
URLMod == <<"/", "m", "/", "@", "v", "/", "1", ".", "m", "o", "d">>
URLZip == <<"/", "m", "/", "@", "v", "/", "1", ".", "z", "i", "p">>
URLOther == <<"/", "m">>
\* "/%25.mod" on the wire: the decoded path holds a bare percent sign.
URLPercent == <<"/", "%", ".", "m", "o", "d">>
URLHealth == <<"/", "h", "e", "a", "l", "t", "h">>
URLPaths == {URLList, URLInfo, URLMod, URLZip, URLOther, URLHealth, URLPercent}
Methods == {"GET", "POST"}

\* Proxy.cacheDir
cacheDir == <<"c">>

\* Proxy.upstream: the configured base URL, one trailing slash trimmed.
upstream == TrimSuffix(<<"u", "/">>, <<"/">>)

\* fmt.Sprintf("%s/%s", p.upstream, path)
UpstreamURL(path) == upstream \o <<"/">> \o path

HexDigits ==
    {"0", "1", "2", "3", "4", "5", "6", "7", "8", "9",
     "a", "b", "c", "d", "e", "f", "A", "B", "C", "D", "E", "F"}

\* err == nil from http.NewRequestWithContext(ctx, GET, url, nil): url.Parse
\* rejects a percent sign that two hex digits do not follow.
NewRequestOK(url) ==
    \A i \in 1..Len(url) :
        url[i] = "%" =>
            /\ i + 2 <= Len(url)
            /\ url[i + 1] \in HexDigits
            /\ url[i + 2] \in HexDigits

\* strings.Index / strings.LastIndex of a one-character c, 0 when absent.
IndexOf(s, c) ==
    IF Contains(s, c) THEN CHOOSE i \in 1..Len(s) :
                               s[i] = c /\ \A j \in 1..(i - 1) : s[j] # c
    ELSE 0
LastIndexOf(s, c) ==
    IF Contains(s, c) THEN CHOOSE i \in 1..Len(s) :
                               s[i] = c /\ \A j \in (i + 1)..Len(s) : s[j] # c
    ELSE 0

\* The elements of a slash-separated path, empty ones included.
RECURSIVE SplitSlash(_)
SplitSlash(s) ==
    IF ~Contains(s, "/") THEN <<s>>
    ELSE LET i == IndexOf(s, "/")
         IN <<SubSeq(s, 1, i - 1)>> \o SplitSlash(SubSeq(s, i + 1, Len(s)))

RECURSIVE JoinSlash(_)
JoinSlash(elems) ==
    IF elems = <<>> THEN <<>>
    ELSE IF Len(elems) = 1 THEN elems[1]
    ELSE elems[1] \o <<"/">> \o JoinSlash(Tail(elems))

\* The elements Clean keeps: empty and "." elements are dropped, ".." drops
\* the element before it; at the root ".." is dropped, at the start of a
\* relative path it is kept.
RECURSIVE CleanElems(_, _, _)
CleanElems(elems, rooted, out) ==
    IF elems = <<>> THEN out
    ELSE LET h == Head(elems)
             t == Tail(elems)
         IN IF h = <<>> \/ h = <<".">> THEN CleanElems(t, rooted, out)
            ELSE IF h # <<".", ".">> THEN CleanElems(t, rooted, Append(out, h))
            ELSE IF out # <<>> /\ out[Len(out)] # <<".", ".">>
            THEN CleanElems(t, rooted, SubSeq(out, 1, Len(out) - 1))
            ELSE IF rooted THEN CleanElems(t, rooted, out)
            ELSE CleanElems(t, rooted, Append(out, h))

\* path.Clean, and filepath.Clean where the separator is the slash.
Clean(path) ==
    IF path = <<>> THEN <<".">>
    ELSE LET rooted == path[1] = "/"
             body == JoinSlash(CleanElems(SplitSlash(path), rooted, <<>>))
         IN IF rooted THEN <<"/">> \o body
            ELSE IF body = <<>> THEN <<".">>
            ELSE body

\* filepath.Join of two non-empty elements.
filepathJoin(a, b) == Clean(a \o <<"/">> \o b)

\* filepath.Dir of a clean path.
filepathDir(path) ==
    LET i == LastIndexOf(path, "/")
    IN IF i = 0 THEN <<".">>
       ELSE IF i = 1 THEN <<"/">>
       ELSE Clean(SubSeq(path, 1, i - 1))

\* cachePath: '/' becomes the separator (the same character here) and
\* filepath.Join puts the result under baseDir, cleaned.
cachePath(baseDir, urlPath) == filepathJoin(baseDir, urlPath)

\* cachePath + ".tmp"
TmpOf(path) == path \o <<".", "t", "m", "p">>

\* A router that sends manifest paths to the info handler.
RouteModToInfo(path) ==
    IF HasSuffix(path, <<"/", "@", "v", "/", "l", "i", "s", "t">>) THEN "list"
    ELSE IF HasSuffix(path, <<".", "i", "n", "f", "o">>) THEN "info"
    ELSE IF HasSuffix(path, <<".", "m", "o", "d">>) THEN "info"
    ELSE IF HasSuffix(path, <<".", "z", "i", "p">>) THEN "zip"
    ELSE "notfound"

\* A router that also sends paths ending in .tmp to the manifest handler.
RouteTmp(path) ==
    IF HasSuffix(path, <<"/", "@", "v", "/", "l", "i", "s", "t">>) THEN "list"
    ELSE IF HasSuffix(path, <<".", "i", "n", "f", "o">>) THEN "info"
    ELSE IF HasSuffix(path, <<".", "m", "o", "d">>) THEN "mod"
    ELSE IF HasSuffix(path, <<".", "z", "i", "p">>) THEN "zip"
    ELSE IF HasSuffix(path, <<".", "t", "m", "p">>) THEN "mod"
    ELSE "notfound"

\* The verb HandleRequest picks for a path (leading slash already trimmed).
Route(path) ==
    IF HasSuffix(path, <<"/", "@", "v", "/", "l", "i", "s", "t">>) THEN "list"
    ELSE IF HasSuffix(path, <<".", "i", "n", "f", "o">>) THEN "info"
    ELSE IF HasSuffix(path, <<".", "m", "o", "d">>) THEN "mod"
    ELSE IF HasSuffix(path, <<".", "z", "i", "p">>) THEN "zip"
    ELSE "notfound"

Keys == {TrimPrefix(u, <<"/">>) : u \in URLPaths}
VerbKeys == {k \in Keys : Route(k) # "notfound"}
Buffered == {"list", "info", "mod"}
FinalPaths == {cachePath(cacheDir, k) : k \in VerbKeys}
Paths == FinalPaths \cup {TmpOf(f) : f \in FinalPaths}

\* ------------------------------------------------------------ configuration
\* The -dns values (after main's DNS_SERVER fallback) the model is run with.
DNSEmpty == <<>>
DNSPlain == <<"8", ".", "8", ".", "8", ".", "8">>
DNSPlainPort == <<"8", ".", "8", ".", "8", ".", "8", ":", "5", "3">>
DNSUdp == <<"u", "d", "p", ":", "/", "/", "9", ".", "9", ".", "9", ".", "9">>
DNSDoH == <<"h", "t", "t", "p", "s", ":", "/", "/", "d", "/", "q">>
DNSDoT == <<"t", "l", "s", ":", "/", "/", "1", ".", "1", ".", "1", ".", "1">>
DNSDoTPort == <<"t", "l", "s", ":", "/", "/", "1", ".", "1", ".", "1", ".", "1", ":", "8", "5", "3">>
DNSDoQ == <<"q", "u", "i", "c", ":", "/", "/", "1", ".", "1", ".", "1", ".", "1">>
DNSPlainV6 == <<"2", "0", "0", "1", ":", ":", "8">>
DNSDoTV6 == <<"t", "l", "s", ":", "/", "/", "2", "0", "0", "1", ":", ":", "8">>
DNSStrings ==
    {DNSEmpty, DNSPlain, DNSPlainPort, DNSUdp, DNSDoH, DNSDoT, DNSDoTPort,
     DNSDoQ, DNSPlainV6, DNSDoTV6}

\* The DNSResolver "nil" createDNSResolver returns for the empty string.
NoResolver == [kind |-> "none", server |-> <<>>]

\* server += port when the remainder holds no colon
WithDefaultPort(server, port) ==
    IF ~Contains(server, ":") THEN server \o port ELSE server

\* createDNSResolver(dnsURL): the resolver's type and its server (for DoH
\* its endpoint).  The error result is always nil.
createDNSResolver(dnsURL) ==
    IF dnsURL = <<>> THEN NoResolver
    ELSE IF HasPrefix(dnsURL, <<"h", "t", "t", "p", "s", ":", "/", "/">>)
    THEN [kind |-> "DoHResolver", server |-> dnsURL]
    ELSE IF HasPrefix(dnsURL, <<"q", "u", "i", "c", ":", "/", "/">>)
    THEN [kind |-> "DoQResolver",
          server |-> WithDefaultPort(TrimPrefix(dnsURL, <<"q", "u", "i", "c", ":", "/", "/">>), <<":", "8", "5", "3">>)]
    ELSE IF HasPrefix(dnsURL, <<"t", "l", "s", ":", "/", "/">>)
    THEN [kind |-> "DoTResolver",
          server |-> WithDefaultPort(TrimPrefix(dnsURL, <<"t", "l", "s", ":", "/", "/">>), <<":", "8", "5", "3">>)]
    ELSE [kind |-> "StandardDNSResolver",
          server |-> WithDefaultPort(TrimPrefix(dnsURL, <<"u", "d", "p", ":", "/", "/">>), <<":", "5", "3">>)]

\* The -proxy values and the three environment settings the model is run
\* with.
ProxyHTTP == <<"h", "t", "t", "p", ":", "/", "/", "p", ":", "1">>
ProxyHTTPUpper == <<"H", "T", "T", "P", ":", "/", "/", "p", ":", "1">>
ProxySOCKS5 == <<"s", "o", "c", "k", "s", "5", ":", "/", "/", "s", ":", "1">>
ProxySOCKS5h == <<"s", "o", "c", "k", "s", "5", "h", ":", "/", "/", "s", ":", "1">>
ProxyFTP == <<"f", "t", "p", ":", "/", "/", "f", ":", "1">>
ProxyNoSlashes == <<"p", ":", "1">>
ProxyBareAddr == <<"1", ".", "1", ".", "1", ".", "1", ":", "1">>
ProxyBadPort == <<"h", "t", "t", "p", ":", "/", "/", "p", ":", "x">>
FlagProxies ==
    {<<>>, ProxyHTTP, ProxyHTTPUpper, ProxySOCKS5, ProxySOCKS5h, ProxyFTP,
     ProxyNoSlashes, ProxyBareAddr, ProxyBadPort}
EnvHTTP == <<"h", "t", "t", "p", ":", "/", "/", "h", ":", "1">>
EnvHTTPS == <<"h", "t", "t", "p", "s", ":", "/", "/", "t", ":", "1">>
EnvSOCKS5 == <<"s", "o", "c", "k", "s", "5", ":", "/", "/", "k", ":", "1">>

\* main: the -proxy flag, or when it is empty the first non-empty of
\* HTTP_PROXY, HTTPS_PROXY, SOCKS5_PROXY, in the other order.
mainProxyHTTPSFirst(c) ==
    IF c.flag # <<>> THEN c.flag
    ELSE IF c.HTTPS_PROXY # <<>> THEN c.HTTPS_PROXY
    ELSE IF c.HTTP_PROXY # <<>> THEN c.HTTP_PROXY
    ELSE IF c.SOCKS5_PROXY # <<>> THEN c.SOCKS5_PROXY
    ELSE <<>>

\* main: *httpProxy as passed to NewProxy: the -proxy flag, or when it is
\* empty the first non-empty of HTTP_PROXY, HTTPS_PROXY, SOCKS5_PROXY.
mainProxy(c) ==
    IF c.flag # <<>> THEN c.flag
    ELSE IF c.HTTP_PROXY # <<>> THEN c.HTTP_PROXY
    ELSE IF c.HTTPS_PROXY # <<>> THEN c.HTTPS_PROXY
    ELSE IF c.SOCKS5_PROXY # <<>> THEN c.SOCKS5_PROXY
    ELSE <<>>

\* NewProxy: proxyURL, from its httpProxy argument and the environment.
proxyURLOf(httpProxy, c) ==
    LET a == IF httpProxy = <<>> THEN c.HTTP_PROXY ELSE httpProxy
        b == IF a = <<>> THEN c.HTTPS_PROXY ELSE a
    IN IF b = <<>> THEN c.SOCKS5_PROXY ELSE b

\* ----------------------------------------------------------------- net/url
LowerLetters ==
    <<"a", "b", "c", "d", "e", "f", "g", "h", "i", "j", "k", "l", "m",
      "n", "o", "p", "q", "r", "s", "t", "u", "v", "w", "x", "y", "z">>
UpperLetters ==
    <<"A", "B", "C", "D", "E", "F", "G", "H", "I", "J", "K", "L", "M",
      "N", "O", "P", "Q", "R", "S", "T", "U", "V", "W", "X", "Y", "Z">>
Digits == {"0", "1", "2", "3", "4", "5", "6", "7", "8", "9"}

ToLower(s) ==
    [i \in 1..Len(s) |->
        IF \E k \in 1..Len(UpperLetters) : UpperLetters[k] = s[i]
        THEN LowerLetters[CHOOSE k \in 1..Len(UpperLetters) : UpperLetters[k] = s[i]]
        ELSE s[i]]

\* url.getScheme: where the scan of the scheme stops, the first character
\* that is not a letter nor, after the first, a digit or one of + - .
SchemeStop(raw) ==
    LET ok(i) == \/ raw[i] \in Range(LowerLetters) \cup Range(UpperLetters)
                 \/ i > 1 /\ raw[i] \in Digits \cup {"+", "-", "."}
    IN CHOOSE i \in 1..(Len(raw) + 1) :
          /\ i = Len(raw) + 1 \/ ~ok(i)
          /\ \A j \in 1..(i - 1) : ok(j)

\* url.parseHost's validOptionalPort on an authority without brackets: what
\* follows the last colon is digits only.
ValidPort(host) ==
    LET i == LastIndexOf(host, ":")
    IN i = 0 \/ \A j \in (i + 1)..Len(host) : host[j] \in Digits

\* url.Parse(raw) for a URL without user info, query or fragment: the error
\* flag, the lower-cased Scheme and the Host.
urlParse(raw) ==
    LET i == SchemeStop(raw)
        colon == i <= Len(raw) /\ raw[i] = ":"
        scheme == IF colon THEN ToLower(SubSeq(raw, 1, i - 1)) ELSE <<>>
        rest == IF colon THEN SubSeq(raw, i + 1, Len(raw)) ELSE raw
        fail == [err |-> TRUE, Scheme |-> <<>>, Host |-> <<>>]
    IN IF colon /\ i = 1 THEN fail
       ELSE IF ~HasPrefix(rest, <<"/">>)
       THEN IF scheme # <<>> THEN [err |-> FALSE, Scheme |-> scheme, Host |-> <<>>]
            ELSE IF Contains(IF Contains(rest, "/")
                             THEN SubSeq(rest, 1, IndexOf(rest, "/") - 1)
                             ELSE rest, ":")
            THEN fail
            ELSE [err |-> FALSE, Scheme |-> <<>>, Host |-> <<>>]
       ELSE IF HasPrefix(rest, <<"/", "/">>)
       THEN LET after == SubSeq(rest, 3, Len(rest))
                authority == IF Contains(after, "/")
                             THEN SubSeq(after, 1, IndexOf(after, "/") - 1)
                             ELSE after
            IN IF ValidPort(authority)
               THEN [err |-> FALSE, Scheme |-> scheme, Host |-> authority]
               ELSE fail
       ELSE [err |-> FALSE, Scheme |-> scheme, Host |-> <<>>]

\* A scheme switch that treats every unknown scheme as an HTTP proxy.
ProxyKindLenient(scheme) ==
    IF scheme \in {<<"s", "o", "c", "k", "s", "5">>, <<"s", "o", "c", "k", "s", "5", "h">>} THEN "socks" ELSE "http"

\* NewProxy's switch on parsedURL.Scheme.
ProxyKind(scheme) ==
    IF scheme \in {<<"h", "t", "t", "p">>, <<"h", "t", "t", "p", "s">>} THEN "http"
    ELSE IF scheme \in {<<"s", "o", "c", "k", "s", "5">>, <<"s", "o", "c", "k", "s", "5", "h">>} THEN "socks"
    ELSE "unsupported"

\* NewProxy: the http.Transport it builds from the DNS setting, its
\* httpProxy argument and the environment.  Proxy is transport.Proxy,
\* DialContext names the function the transport dials with: createDialer's
\* dialer, the SOCKS5 dialer, or the wrapper that resolves before SOCKS5.
NewProxy(dnsServer, httpProxy, c) ==
    LET dnsResolver == createDNSResolver(dnsServer)
        proxyURL == proxyURLOf(httpProxy, c)
        parsedURL == urlParse(proxyURL)
        kind == IF proxyURL = <<>> \/ parsedURL.err THEN "none"
                ELSE ProxyKind(parsedURL.Scheme)
    IN [built |-> TRUE,
        dnsResolver |-> dnsResolver,
        proxyURL |-> proxyURL,
        Proxy |-> IF kind = "http" THEN [set |-> TRUE, Host |-> parsedURL.Host]
                  ELSE [set |-> FALSE, Host |-> <<>>],
        DialContext |-> IF kind # "socks" THEN "dialer"
                        ELSE IF dnsResolver # NoResolver THEN "dns+socks"
                        ELSE "socks",
        socksAddr |-> IF kind = "socks" THEN parsedURL.Host ELSE <<>>]

\* ---------------------------------------------------------------- upstream
\* Bodies upstream can answer with, per verb.  The version list changes over
\* time; no list body is a prefix of another.  The zero byte is not used by
\* any body: it is what a hole in a file reads as.
ZipBody == [i \in 1..ZipChunks |-> ToString(i)]
ListBodies == {<<"a", "b">>, <<"c", "d">>}
ModBodies == {<<"g", "o">>}
JSONObject == <<"{", "}">>
JSONNull == <<"n", "u", "l", "l">>
JSONArray == <<"[", "]">>
NotJSON == <<"n", "o">>
InfoBodies == {JSONObject, JSONNull, JSONArray, NotJSON}

UpstreamBodies(verb) ==
    CASE verb = "list" -> ListBodies
      [] verb = "info" -> InfoBodies
      [] verb = "mod" -> ModBodies
      [] verb = "zip" -> {ZipBody}

\* net/http status codes the handlers use.
StatusOK == 200
StatusNotFound == 404
StatusMethodNotAllowed == 405
StatusInternalServerError == 500
StatusBadGateway == 502

\* Statuses upstream can answer with.
UpstreamStatuses == {StatusOK, 404, 410}

\* json.Unmarshal(data, &info) with info a map[string]interface{}: a JSON
\* object decodes, the literal null decodes (it sets the map to nil), any
\* other JSON value is a type error and anything else a syntax error.
JSONKind(data) ==
    IF data = JSONObject THEN "object"
    ELSE IF data = JSONNull THEN "null"
    ELSE IF data = JSONArray THEN "array"
    ELSE "invalid"

\* A validation that accepts every body.
UnmarshalAlwaysOK(data) == TRUE

\* err == nil from json.Unmarshal(data, &info)
UnmarshalMapOK(data) == JSONKind(data) \in {"object", "null"}

\* ------------------------------------------------------------- file system
\* An inode holds a file's bytes.  Directory entries and open descriptors
\* refer to inodes, so a file renamed or removed while a handler still
\* holds it open stays writable through the descriptor.
Inodes == 1..(Cardinality(Paths) + NProcs)
NoInode == 0
NoFail == -1

VARIABLES
    dir,        \* directory: path -> inode, or NoInode when absent
    inode,      \* inode -> content, a sequence of bytes
    readers,    \* Proxy.mu: the goroutines holding RLock
    writer,     \* Proxy.mu: the goroutine holding Lock, or 0
    req,        \* per goroutine: the request it serves and where it stands
    started,    \* number of requests started so far
    cfg,        \* the settings main passes on: -dns, -proxy, the environment
    transport,  \* the http.Transport NewProxy built (built = FALSE before)
    dial,       \* the outbound connection the transport is establishing
    fetch,      \* one handler's upstream exchange, its contexts and its age
    fs,         \* the file tree: path -> nothing, a file's bytes or a directory
    last        \* the request served last on that tree, and what came of it

cachevars == <<dir, inode, readers, writer, req, started>>
netvars == <<cfg, transport, dial>>
ctxvars == <<fetch>>
pathvars == <<fs, last>>
vars == <<dir, inode, readers, writer, req, started, cfg, transport, dial,
          fetch, fs, last>>

\* A write that loses its last byte.
WriteAtShort(content, off, bytes) ==
    IF bytes = <<>> THEN content
    ELSE [i \in 1..(off + Len(bytes) - 1) |->
            IF i > off THEN bytes[i - off]
            ELSE IF i <= Len(content) THEN content[i] ELSE "0"]

\* Bytes written at an offset of a file: a write past the end fills the gap
\* with zero bytes, a write inside the file overwrites in place.
WriteAt(content, off, bytes) ==
    LET newLen == IF off + Len(bytes) > Len(content)
                  THEN off + Len(bytes) ELSE Len(content)
    IN [i \in 1..newLen |->
          IF i > off /\ i <= off + Len(bytes) THEN bytes[i - off]
          ELSE IF i <= Len(content) THEN content[i]
          ELSE "0"]

Referenced(d, r, i) ==
    \/ \E f \in Paths : d[f] = i
    \/ \E p \in Procs : r[p].fd = i

\* An inode nobody links or holds open is gone: its content is dropped.
Reclaim(d, r, ino) ==
    [i \in Inodes |-> IF Referenced(d, r, i) THEN ino[i] ELSE <<>>]

FreeInode(d, r) ==
    CHOOSE i \in Inodes :
        /\ ~Referenced(d, r, i)
        /\ \A j \in Inodes : j < i => Referenced(d, r, j)

\* os.Create / os.WriteFile's open: O_CREATE|O_TRUNC on path.  The entry
\* after the call, and the inode the descriptor refers to.
CreatedInode(path) ==
    IF dir[path] # NoInode THEN dir[path] ELSE FreeInode(dir, req)

\* os.ReadFile(path): the error flag and the bytes.
readCache(path) ==
    IF dir[path] = NoInode
    THEN [err |-> TRUE, data |-> <<>>]
    ELSE [err |-> FALSE, data |-> inode[dir[path]]]

\* cacheExists(path)
cacheExists(path) == dir[path] # NoInode

\* ------------------------------------------------------------- file tree
\* The request paths (r.URL.Path as the server hands it to the ServeMux)
\* served on the file tree:
\* TreeList: a version list;
\* TreeListUnder: a version list whose path runs through the first one's file;
\* TreeZipUnder: an archive whose path runs through it too;
\* TreeZip: an archive;
\* TreeInfoUnder: an info file whose path runs through the archive's file;
\* TreeMod: a go.mod file;
\* TreeDotDot: the same behind a .. element;
\* TreeDot: behind a . element;
\* TreeDouble: behind a doubled slash;
\* TreeTmpName: the name of the first list's temporary file.
TreeList == <<"/", "a", "/", "@", "v", "/", "l", "i", "s", "t">>
TreeListUnder == <<"/", "a", "/", "@", "v", "/", "l", "i", "s", "t", "/", "@", "v", "/", "l", "i", "s", "t">>
TreeZipUnder == <<"/", "a", "/", "@", "v", "/", "l", "i", "s", "t", "/", "1", ".", "z", "i", "p">>
TreeZip == <<"/", "a", ".", "z", "i", "p">>
TreeInfoUnder == <<"/", "a", ".", "z", "i", "p", "/", "1", ".", "i", "n", "f", "o">>
TreeMod == <<"/", "b", ".", "m", "o", "d">>
TreeDotDot == <<"/", ".", ".", "/", "b", ".", "m", "o", "d">>
TreeDot == <<"/", "a", "/", ".", "/", "b", ".", "m", "o", "d">>
TreeDouble == <<"/", "/", "b", ".", "m", "o", "d">>
TreeTmpName == <<"/", "a", "/", "@", "v", "/", "l", "i", "s", "t", ".", "t", "m", "p">>
TreeURLs ==
    {TreeList, TreeListUnder, TreeZipUnder, TreeZip, TreeInfoUnder, TreeMod,
     TreeDotDot, TreeDot, TreeDouble, TreeTmpName, URLHealth}

\* Every directory above a clean path: what stands before each of its
\* slashes, and the working directory (the root for a rooted path).
Ancestors(path) ==
    {IF i = 1 THEN <<"/">> ELSE SubSeq(path, 1, i - 1) :
        i \in {j \in 1..Len(path) : path[j] = "/"}}
    \cup (IF path[1] = "/" THEN {<<"/">>} ELSE {<<".">>})

\* The paths of the tree: what any of the request paths can name as a final
\* or a temporary file, and the directories above them.
TreeFiles ==
    UNION {{cachePath(cacheDir, TrimPrefix(u, <<"/">>)),
            TmpOf(cachePath(cacheDir, TrimPrefix(u, <<"/">>)))} : u \in TreeURLs}
TreePaths == TreeFiles \cup UNION {Ancestors(f) : f \in TreeFiles}

Absent == [kind |-> "none", data |-> <<>>]
Directory == [kind |-> "dir", data |-> <<>>]
RegularFile(data) == [kind |-> "file", data |-> data]

\* main: os.MkdirAll(*cacheDir, 0755) has made the cache directory in the
\* working directory; nothing else is there.
InitFS ==
    [f \in TreePaths |->
        IF f \in {<<".">>, <<"/">>, cacheDir} THEN Directory ELSE Absent]

\* Every directory on the way to path exists.
Reachable(t, path) == \A d \in Ancestors(path) : t[d].kind = "dir"

\* os.ReadFile(path): a directory opens but does not read.
osReadFile(t, path) ==
    IF Reachable(t, path) /\ t[path].kind = "file"
    THEN [err |-> FALSE, data |-> t[path].data]
    ELSE [err |-> TRUE, data |-> <<>>]

\* os.Open(path): succeeds on a file and on a directory.
osOpen(t, path) ==
    [err |-> ~(Reachable(t, path) /\ t[path].kind # "none")]

\* os.MkdirAll(path): fails when path or a directory above it is a file.
osMkdirAll(t, path) ==
    LET chain == {path} \cup Ancestors(path)
    IN IF \E d \in chain : t[d].kind = "file"
       THEN [err |-> TRUE, fs |-> t, made |-> {}]
       ELSE [err |-> FALSE,
             fs |-> [f \in TreePaths |-> IF f \in chain THEN Directory ELSE t[f]],
             made |-> {d \in chain : t[d].kind = "none"}]

\* os.WriteFile(path, data) and os.Create(path) followed by the writes: the
\* open fails on a directory.
osWriteFile(t, path, data) ==
    IF ~Reachable(t, path) \/ t[path].kind = "dir"
    THEN [err |-> TRUE, fs |-> t]
    ELSE [err |-> FALSE, fs |-> [t EXCEPT ![path] = RegularFile(data)]]

\* os.Rename(oldpath, newpath) of a file: fails onto a directory.
osRename(t, oldpath, newpath) ==
    IF t[newpath].kind = "dir" \/ ~Reachable(t, newpath)
    THEN [err |-> TRUE, fs |-> t]
    ELSE [err |-> FALSE,
          fs |-> [t EXCEPT ![newpath] = t[oldpath], ![oldpath] = Absent]]

\* os.Remove(path) of a file.
osRemove(t, path) ==
    IF t[path].kind = "file" THEN [t EXCEPT ![path] = Absent] ELSE t

\* No request served on the tree yet.
NoRequest ==
    [method |-> "", url |-> <<>>, handler |-> "none", route |-> "none",
     key |-> <<>>, status |-> 0, body |-> <<>>, hit |-> FALSE,
     looked |-> <<>>, touched |-> {}]

\* -------------------------------------------------------------- requests
IdleReq ==
    [pc |-> "idle", method |-> "", key |-> <<>>, url |-> <<>>, fd |-> NoInode, status |-> 0, body |-> <<>>,
     hit |-> FALSE, seen |-> <<>>, data |-> <<>>, size |-> 0,
     fault |-> "none",
     failAt |-> NoFail, gets |-> 0, upstatus |-> 0, ops |-> {}]

Verb(p) == Route(req[p].key)
\* cachePath(p.cacheDir, path) of every key a request can carry.
FinalOf == [k \in Keys \cup {<<>>} |-> cachePath(cacheDir, k)]

Final(p) == FinalOf[req[p].key]
Tmp(p) == TmpOf(Final(p))

\* The cache directory is empty and no request is in flight.
InitCache ==
    /\ dir = [f \in Paths |-> NoInode]
    /\ inode = [i \in Inodes |-> <<>>]
    /\ readers = {}
    /\ writer = 0
    /\ req = [p \in Procs |-> IdleReq]
    /\ started = 0

\* No -dns, no -proxy, nothing in the environment.
DefaultCfg ==
    [dns |-> <<>>, flag |-> <<>>, HTTP_PROXY |-> <<>>, HTTPS_PROXY |-> <<>>,
     SOCKS5_PROXY |-> <<>>]

\* No dial in progress.
IdleDial ==
    [pc |-> "idle", address |-> <<>>, ctx |-> "live", hasDeadline |-> FALSE,
     lname |-> <<>>, lstep |-> "none", lsteps |-> 0, lres |-> "none",
     lctx |-> "live", ips |-> <<>>, looked |-> <<>>, nsconn |-> <<>>,
     answeredBy |-> <<>>, to |-> <<>>, via |-> "none", err |-> "none"]

\* No upstream exchange in progress.
IdleFetch ==
    [pc |-> "idle", verb |-> "none", inbound |-> "live", minutes |-> 0,
     got |-> 0, end |-> "none"]

\* The proxy as main leaves it before serving: started with default
\* settings, NewProxy done.
Init ==
    /\ InitCache
    /\ cfg = DefaultCfg
    /\ transport = NewProxy(cfg.dns, mainProxy(cfg), cfg)
    /\ dial = IdleDial
    /\ fetch = IdleFetch
    /\ fs = InitFS
    /\ last = NoRequest

\* The handler returns: the response is complete.  A handler that wrote
\* nothing gets net/http's implicit 200.
Finish(r) ==
    [r EXCEPT !.pc = "done", !.fd = NoInode,
              !.status = IF r.status = 0 THEN StatusOK ELSE r.status]

\* handleHealth
HealthPaths == {<<"h", "e", "a", "l", "t", "h">>,
                <<"h", "e", "a", "l", "t", "h", "z">>}
HealthBody == <<"o", "k">>

\* An error path that tries the upstream request once more after client.Do
\* failed.
HTTPErrorRetry(r, code, why) ==
    IF why = "do" /\ r.gets < 2 THEN [r EXCEPT !.pc = "fetch"]
    ELSE [r EXCEPT !.pc = "done", !.fd = NoInode, !.status = code, !.fault = why]

\* An error answer that always says 502, whatever code it was given.
HTTPErrorBadGateway(r, code, why) ==
    [r EXCEPT !.pc = "done", !.fd = NoInode, !.status = StatusBadGateway,
              !.fault = why]

\* http.Error(w, msg, code), and the handler returns.
HTTPError(r, code, why) ==
    [r EXCEPT !.pc = "done", !.fd = NoInode, !.status = code, !.fault = why]

\* HandleRequest: method check, health check, routing by suffix.
HandleRequest(p, method, url) ==
    /\ req[p].pc \in {"idle", "done"}
    /\ started < MaxReqs
    /\ started' = started + 1
    /\ LET path == TrimPrefix(url, <<"/">>)
           r == [IdleReq EXCEPT !.method = method, !.key = path]
       IN req' = [req EXCEPT ![p] =
                    IF method # "GET" THEN HTTPError(r, StatusMethodNotAllowed, "method")
                    ELSE IF path \in HealthPaths
                    THEN Finish([r EXCEPT !.status = StatusOK, !.body = HealthBody])
                    ELSE IF Route(path) = "notfound" THEN HTTPError(r, StatusNotFound, "route")
                    ELSE [r EXCEPT !.pc = "rlock"]]
    /\ UNCHANGED <<dir, inode, readers, writer>>
    /\ UNCHANGED <<netvars, ctxvars, pathvars>>

\* p.mu.RLock() can proceed
MuCanRLock == writer = 0

\* A Lock() that excludes nobody.
MuCanLockAlways == TRUE

\* p.mu.Lock() can proceed
MuCanLock == writer = 0 /\ readers = {}

RLock(p) ==
    /\ req[p].pc = "rlock"
    /\ MuCanRLock
    /\ readers' = readers \cup {p}
    /\ req' = [req EXCEPT ![p].pc = IF Verb(p) = "zip" THEN "open" ELSE "read"]
    /\ UNCHANGED <<dir, inode, writer, started>>
    /\ UNCHANGED <<netvars, ctxvars, pathvars>>

\* handleList/handleInfo/handleMod: cached, err := readCache(cachePath)
ReadCache(p) ==
    /\ req[p].pc = "read"
    /\ LET got == readCache(Final(p))
       IN req' = [req EXCEPT ![p].pc = "runlock", ![p].hit = ~got.err,
                             ![p].seen = got.data]
    /\ UNCHANGED <<dir, inode, readers, writer, started>>
    /\ UNCHANGED <<netvars, ctxvars, pathvars>>

\* handleZip: file, err := os.Open(cachePath)
ZipOpen(p) ==
    /\ req[p].pc = "open"
    /\ LET i == dir[Final(p)]
       IN req' = [req EXCEPT ![p].pc = "runlock", ![p].hit = (i # NoInode),
                             ![p].fd = i,
                             ![p].seen = IF i = NoInode THEN <<>> ELSE inode[i]]
    /\ UNCHANGED <<dir, inode, readers, writer, started>>
    /\ UNCHANGED <<netvars, ctxvars, pathvars>>

\* An RUnlock that releases nothing.
MuRUnlockKept(p) == readers

\* p.mu.RUnlock(): the holders of the read lock afterwards.
MuRUnlock(p) == readers \ {p}

\* p.mu.RUnlock(), then the hit/miss branch.  A buffered hit writes the
\* cached bytes and returns.
RUnlock(p) ==
    /\ req[p].pc = "runlock"
    /\ readers' = MuRUnlock(p)
    /\ req' = [req EXCEPT ![p] =
                 IF ~req[p].hit THEN [@ EXCEPT !.pc = "fetch"]
                 ELSE IF Verb(p) = "zip" THEN [@ EXCEPT !.pc = "stat"]
                 ELSE Finish([@ EXCEPT !.status = StatusOK, !.body = req[p].seen])]
    /\ UNCHANGED <<dir, inode, writer, started>>
    /\ UNCHANGED <<netvars, ctxvars, pathvars>>

\* A miss of any verb whose upstream URL does not parse:
\* http.NewRequestWithContext fails and the handler answers 500 without
\* an upstream request.
NewRequestFail(p) ==
    /\ req[p].pc = "fetch"
    /\ ~NewRequestOK(UpstreamURL(req[p].key))
    /\ req' = [req EXCEPT ![p] =
                 HTTPError(@, StatusInternalServerError, "newreq")]
    /\ UNCHANGED <<dir, inode, readers, writer, started>>
    /\ UNCHANGED <<netvars, ctxvars, pathvars>>

\* A buffered verb's miss, the request built: one upstream GET (client.Do),
\* the status check, io.ReadAll and (info only) the JSON validation.  None
\* of it touches the cache.
Fetch(p) ==
    /\ req[p].pc = "fetch"
    /\ Verb(p) \in Buffered
    /\ NewRequestOK(UpstreamURL(req[p].key))
    /\ LET r == [req[p] EXCEPT !.gets = @ + 1, !.url = UpstreamURL(req[p].key)]
       IN \/ req' = [req EXCEPT ![p] = HTTPError(r, StatusBadGateway, "do")]
          \/ \E s \in UpstreamStatuses \ {StatusOK} :
                req' = [req EXCEPT ![p] =
                          HTTPError([r EXCEPT !.upstatus = s], s, "status")]
          \/ req' = [req EXCEPT ![p] =
                       HTTPError([r EXCEPT !.upstatus = StatusOK],
                                 StatusInternalServerError, "read")]
          \/ \E b \in UpstreamBodies(Verb(p)) :
                req' = [req EXCEPT ![p] =
                          LET got == [r EXCEPT !.upstatus = StatusOK, !.data = b]
                          IN IF Verb(p) = "info" /\ ~UnmarshalMapOK(b)
                             THEN HTTPError(got, StatusBadGateway, "json")
                             ELSE [got EXCEPT !.pc = "lock"]]
    /\ UNCHANGED <<dir, inode, readers, writer, started>>
    /\ UNCHANGED <<netvars, ctxvars, pathvars>>

Lock(p) ==
    /\ req[p].pc = "lock"
    /\ MuCanLock
    /\ writer' = p
    /\ req' = [req EXCEPT ![p].pc = "wopen"]
    /\ UNCHANGED <<dir, inode, readers, started>>
    /\ UNCHANGED <<netvars, ctxvars, pathvars>>

\* writeCache: os.MkdirAll, then os.WriteFile's open of path+".tmp"
\* (O_CREATE|O_TRUNC).  Either can fail; writeCache then returns the error.
WriteCacheOpen(p) ==
    /\ req[p].pc = "wopen"
    /\ \/ /\ \E why \in {"mkdir", "create"} :
                req' = [req EXCEPT ![p].pc = "unlock", ![p].fault = why]
          /\ UNCHANGED <<dir, inode>>
       \/ LET i == CreatedInode(Tmp(p))
          IN /\ dir' = [dir EXCEPT ![Tmp(p)] = i]
             /\ req' = [req EXCEPT ![p].pc = "wwrite", ![p].fd = i,
                                   ![p].ops = @ \cup {"create"}]
             /\ inode' = Reclaim(dir', req', [inode EXCEPT ![i] = <<>>])
    /\ UNCHANGED <<readers, writer, started>>
    /\ UNCHANGED <<netvars, ctxvars, pathvars>>

\* writeCache: os.WriteFile's write and close.  A failed write leaves a
\* proper prefix of the data in the temporary file.
WriteCacheWrite(p) ==
    /\ req[p].pc = "wwrite"
    /\ \/ /\ req' = [req EXCEPT ![p].pc = "wrename", ![p].fd = NoInode,
                                ![p].ops = @ \cup {"write"}]
          /\ inode' = Reclaim(dir, req',
                        [inode EXCEPT ![req[p].fd] = WriteAt(@, 0, req[p].data)])
       \/ \E n \in 0..(Len(req[p].data) - 1) :
          /\ req' = [req EXCEPT ![p].pc = "unlock", ![p].fd = NoInode,
                                ![p].fault = "write"]
          /\ inode' = Reclaim(dir, req',
                        [inode EXCEPT ![req[p].fd] =
                            WriteAt(@, 0, SubSeq(req[p].data, 1, n))])
    /\ UNCHANGED <<dir, readers, writer, started>>
    /\ UNCHANGED <<netvars, ctxvars, pathvars>>

\* os.Rename(oldpath, newpath): the directory after a successful rename.
Renamed(oldpath, newpath) ==
    [dir EXCEPT ![newpath] = dir[oldpath], ![oldpath] = NoInode]

\* writeCache: return os.Rename(tmpPath, path)
WriteCacheRename(p) ==
    /\ req[p].pc = "wrename"
    /\ \/ /\ dir[Tmp(p)] # NoInode
          /\ dir' = Renamed(Tmp(p), Final(p))
          /\ req' = [req EXCEPT ![p].pc = "unlock", ![p].ops = @ \cup {"rename"}]
          /\ inode' = Reclaim(dir', req', inode)
       \/ /\ req' = [req EXCEPT ![p].pc = "unlock", ![p].fault = "rename"]
          /\ UNCHANGED <<dir, inode>>
    /\ UNCHANGED <<readers, writer, started>>
    /\ UNCHANGED <<netvars, ctxvars, pathvars>>

\* A handler that answers 500 when writeCache failed.
AfterWriteCacheStrict(r) ==
    IF r.fault # "none" THEN HTTPError(r, StatusInternalServerError, r.fault)
    ELSE Finish([r EXCEPT !.status = StatusOK, !.body = r.data])

\* What a buffered handler answers once writeCache has returned: a failed
\* writeCache was only logged, the fetched data is written to the client.
AfterWriteCache(r) == Finish([r EXCEPT !.status = StatusOK, !.body = r.data])

\* An Unlock that leaves the lock with its holder.
MuUnlockKept(p) == p

\* p.mu.Unlock(): the holder of the write lock afterwards, nobody.
MuUnlock(p) == 0

\* p.mu.Unlock(), then w.Write(data).
Unlock(p) ==
    /\ req[p].pc = "unlock"
    /\ writer' = MuUnlock(p)
    /\ req' = [req EXCEPT ![p] = AfterWriteCache(@)]
    /\ UNCHANGED <<dir, inode, readers, started>>
    /\ UNCHANGED <<netvars, ctxvars, pathvars>>

\* ------------------------------------------------------------------- zip
\* handleZip, cache hit: file.Stat().  On success the Content-Length header
\* is set from the size; on failure the file is closed and the handler
\* falls through to the miss path.
ZipStat(p) ==
    /\ req[p].pc = "stat"
    /\ \/ /\ req' = [req EXCEPT ![p].pc = "serve",
                                ![p].size = Len(inode[req[p].fd])]
          /\ UNCHANGED inode
       \/ /\ req' = [req EXCEPT ![p].pc = "fetch", ![p].fd = NoInode,
                                ![p].hit = FALSE, ![p].fault = "stat"]
          /\ inode' = Reclaim(dir, req', inode)
    /\ UNCHANGED <<dir, readers, writer, started>>
    /\ UNCHANGED <<netvars, ctxvars, pathvars>>

\* handleZip, cache hit: io.Copy(w, file), one chunk per step.  The copy
\* ends at end of file, or when the response would exceed the declared
\* Content-Length (the ResponseWriter then refuses the write).
ZipServe(p) ==
    /\ req[p].pc = "serve"
    /\ LET content == inode[req[p].fd]
           off == Len(req[p].body)
       IN req' = [req EXCEPT ![p] =
                    IF off < Len(content) /\ off < req[p].size
                    THEN [@ EXCEPT !.body = Append(@, content[off + 1]),
                                   !.status = StatusOK]
                    ELSE Finish(@)]
    /\ inode' = Reclaim(dir, req', inode)
    /\ UNCHANGED <<dir, readers, writer, started>>
    /\ UNCHANGED <<netvars, ctxvars, pathvars>>

\* handleZip, cache miss, the request built: client.Do and the status check.  The body is not
\* read here; a 200 response's stream either ends normally or breaks (an
\* upstream read error, or the client going away) after failAt chunks.
ZipFetch(p) ==
    /\ req[p].pc = "fetch"
    /\ Verb(p) = "zip"
    /\ NewRequestOK(UpstreamURL(req[p].key))
    /\ LET r == [req[p] EXCEPT !.gets = @ + 1, !.url = UpstreamURL(req[p].key)]
       IN \/ req' = [req EXCEPT ![p] = HTTPError(r, StatusBadGateway, "do")]
          \/ \E s \in UpstreamStatuses \ {StatusOK} :
                req' = [req EXCEPT ![p] =
                          HTTPError([r EXCEPT !.upstatus = s], s, "status")]
          \/ \E f \in {NoFail} \cup (0..ZipChunks) :
                req' = [req EXCEPT ![p] =
                          [r EXCEPT !.upstatus = StatusOK, !.data = ZipBody,
                                    !.failAt = f, !.pc = "zcreate"]]
    /\ UNCHANGED <<dir, inode, readers, writer, started>>
    /\ UNCHANGED <<netvars, ctxvars, pathvars>>

\* handleZip: os.MkdirAll, then os.Create(cachePath + ".tmp").  A failure
\* of either is answered with 500.
ZipCreate(p) ==
    /\ req[p].pc = "zcreate"
    /\ \/ /\ \E why \in {"mkdir", "create"} :
                req' = [req EXCEPT ![p] = HTTPError(@, StatusInternalServerError, why)]
          /\ UNCHANGED <<dir, inode>>
       \/ LET i == CreatedInode(Tmp(p))
          IN /\ dir' = [dir EXCEPT ![Tmp(p)] = i]
             /\ req' = [req EXCEPT ![p].pc = "zcopy", ![p].fd = i,
                                   ![p].ops = @ \cup {"create"}]
             /\ inode' = Reclaim(dir', req', [inode EXCEPT ![i] = <<>>])
    /\ UNCHANGED <<readers, writer, started>>
    /\ UNCHANGED <<netvars, ctxvars, pathvars>>

\* handleZip: one round of io.CopyBuffer into io.MultiWriter(w, cacheFile):
\* the chunk goes to the client first, then to the temporary file at the
\* descriptor's offset.  A failed file write ends the copy with an error.
ZipCopyChunk(p) ==
    /\ req[p].pc = "zcopy"
    /\ LET n == Len(req[p].body)
       IN /\ n < ZipChunks
          /\ n # req[p].failAt
          /\ \/ /\ req' = [req EXCEPT ![p].body = Append(@, req[p].data[n + 1]),
                                      ![p].status = StatusOK,
                                      ![p].ops = @ \cup {"write"}]
                /\ inode' = [inode EXCEPT ![req[p].fd] =
                                WriteAt(@, n, <<req[p].data[n + 1]>>)]
             \/ /\ req' = [req EXCEPT ![p].body = Append(@, req[p].data[n + 1]),
                                      ![p].status = StatusOK, ![p].fd = NoInode,
                                      ![p].fault = "write", ![p].pc = "zremove"]
                /\ inode' = Reclaim(dir, req', inode)
    /\ UNCHANGED <<dir, readers, writer, started>>
    /\ UNCHANGED <<netvars, ctxvars, pathvars>>

\* handleZip: io.CopyBuffer returns an error (the stream broke);
\* cacheFile.Close().
ZipCopyFail(p) ==
    /\ req[p].pc = "zcopy"
    /\ Len(req[p].body) = req[p].failAt
    /\ req' = [req EXCEPT ![p].fd = NoInode, ![p].fault = "stream",
                          ![p].pc = "zremove"]
    /\ inode' = Reclaim(dir, req', inode)
    /\ UNCHANGED <<dir, readers, writer, started>>
    /\ UNCHANGED <<netvars, ctxvars, pathvars>>

\* The copy has returned, with or without an error.
CopyEnded(r) ==
    Len(r.body) = ZipChunks \/ Len(r.body) = r.failAt

\* io.CopyBuffer has returned and err == nil: the stream reached its end.
CopySucceeded(r) ==
    Len(r.body) = ZipChunks /\ r.failAt = NoFail

\* handleZip: the copy ended without error; cacheFile.Close() and
\* os.Rename(cachePath+".tmp", cachePath).  A failed rename is logged and
\* the temporary file removed next.
ZipRename(p) ==
    /\ req[p].pc = "zcopy"
    /\ CopySucceeded(req[p])
    /\ \/ /\ dir[Tmp(p)] # NoInode
          /\ dir' = Renamed(Tmp(p), Final(p))
          /\ req' = [req EXCEPT ![p] =
                       Finish([@ EXCEPT !.ops = @ \cup {"rename"}])]
       \/ /\ dir[Tmp(p)] # NoInode
          /\ req' = [req EXCEPT ![p].fd = NoInode, ![p].fault = "rename",
                                ![p].pc = "zremove"]
          /\ UNCHANGED dir
       \/ /\ dir[Tmp(p)] = NoInode
          /\ req' = [req EXCEPT ![p].fd = NoInode, ![p].fault = "enoent",
                                ![p].pc = "zremove"]
          /\ UNCHANGED dir
    /\ inode' = Reclaim(dir', req', inode)
    /\ UNCHANGED <<readers, writer, started>>
    /\ UNCHANGED <<netvars, ctxvars, pathvars>>

\* os.Remove(path): the directory after the call (unchanged when the path
\* does not exist).
Removed(path) == [dir EXCEPT ![path] = NoInode]

\* A cleanup that removes the final file instead of the temporary one.
ZipRemovePathFinal(p) == Final(p)

\* The path handleZip removes after a failed copy or a failed rename.
ZipRemovePath(p) == Tmp(p)

\* handleZip: os.Remove(cachePath + ".tmp") on either error path, then
\* return.
ZipRemove(p) ==
    /\ req[p].pc = "zremove"
    /\ dir' = Removed(ZipRemovePath(p))
    /\ req' = [req EXCEPT ![p] = Finish([@ EXCEPT !.ops = @ \cup {"remove"}])]
    /\ inode' = Reclaim(dir', req', inode)
    /\ UNCHANGED <<readers, writer, started>>
    /\ UNCHANGED <<netvars, ctxvars, pathvars>>

\* ------------------------------------------------------------------- dial
\* The name server /etc/resolv.conf names: the address Go's built-in
\* resolver hands to net.Resolver.Dial.
ResolvConf == <<"1", "2", "7", ".", "0", ".", "0", ".", "5", "3", ":", "5", "3">>

\* The addresses the transport is asked to connect to when no HTTP proxy is
\* set: the upstream by name, and an upstream given as an IP literal.
UpstreamAddrs == {<<"g", ":", "4", "4", "3">>, <<"3", ".", "3", ".", "3", ".", "3", ":", "4", "4", "3">>}

\* The address lists a DNS answer can carry.
AnswerLists == {<<<<"5", ".", "5", ".", "5", ".", "5">>, <<"6", ".", "6", ".", "6", ".", "6">>>>, <<<<"6", ".", "6", ".", "6", ".", "6">>>>}

\* netip.ParseAddr(host) succeeds: dotted digits, or hex digits and colons.
IsIP(host) ==
    /\ host # <<>>
    /\ \/ Range(host) \subseteq Digits \cup {"."}
       \/ Contains(host, ":") /\ Range(host) \subseteq HexDigits \cup {":"}

\* net.SplitHostPort(address): the text after the last colon is the port;
\* a host with a colon of its own must be in brackets.
SplitHostPort(address) ==
    LET i == LastIndexOf(address, ":")
        host == SubSeq(address, 1, i - 1)
        port == SubSeq(address, i + 1, Len(address))
    IN IF i = 0 THEN [err |-> TRUE, host |-> <<>>, port |-> <<>>]
       ELSE IF HasPrefix(host, <<"[">>) /\ HasSuffix(host, <<"]">>)
       THEN [err |-> FALSE, host |-> SubSeq(host, 2, Len(host) - 1), port |-> port]
       ELSE IF Contains(host, ":") \/ Contains(host, "[") \/ Contains(host, "]")
       THEN [err |-> TRUE, host |-> <<>>, port |-> <<>>]
       ELSE [err |-> FALSE, host |-> host, port |-> port]

\* net.JoinHostPort(host, port)
JoinHostPort(host, port) ==
    IF Contains(host, ":") THEN <<"[">> \o host \o <<"]", ":">> \o port
    ELSE host \o <<":">> \o port

\* The network steps of one LookupIP call, in order.  The UDP resolver's
\* exchange has no handshake.
LookupSteps(kind) ==
    IF kind = "StandardDNSResolver" THEN <<"connect", "write", "read">>
    ELSE <<"connect", "handshake", "write", "read">>

\* Whether the resolver's server can be dialled at all: a DoH endpoint is a
\* URL, the other three are dialled as host:port and the dial rejects an
\* address net.SplitHostPort rejects.
ServerDialable(resolver) ==
    resolver.kind = "DoHResolver" \/ ~SplitHostPort(resolver.server).err

\* Whether a step of LookupIP gives up because of the caller's context.
\* StandardDNSResolver and DoHResolver pass ctx to every network call.
\* DoTResolver (and DoQResolver, which calls it) dials with
\* tls.DialWithDialer, which takes no context, and afterwards only copies
\* the context's deadline, if it has one, onto the connection.
CtxStops(kind, step, ctx, hasDeadline) ==
    IF kind \in {"StandardDNSResolver", "DoHResolver"} THEN ctx # "live"
    ELSE /\ step \in {"write", "read"}
         /\ hasDeadline
         /\ ctx = "expired"

\* The address the DNS-resolving SOCKS5 wrapper hands to the SOCKS5 dialer
\* when it skips the resolution.
ResolvedAddrUnresolved(address, ips) == address

\* resolvedAddr := net.JoinHostPort(ips[0].String(), port)
ResolvedAddr(address, ips) ==
    JoinHostPort(ips[1], SplitHostPort(address).port)

\* The settings the network model is run with.
Cfgs ==
    [dns : DNSStrings, flag : FlagProxies, HTTP_PROXY : {<<>>, EnvHTTP},
     HTTPS_PROXY : {<<>>, EnvHTTPS}, SOCKS5_PROXY : {<<>>, EnvSOCKS5}]

\* Before NewProxy has run.
NoTransport ==
    [built |-> FALSE, dnsResolver |-> NoResolver, proxyURL |-> <<>>,
     Proxy |-> [set |-> FALSE, Host |-> <<>>], DialContext |-> "none",
     socksAddr |-> <<>>]

InitNet ==
    /\ InitCache
    /\ cfg \in Cfgs
    /\ transport = NoTransport
    /\ dial = IdleDial
    /\ fetch = IdleFetch
    /\ fs = InitFS
    /\ last = NoRequest

\* main: proxy := NewProxy(*cacheDir, *upstream, *httpProxy, *dnsServer)
NewProxyStep ==
    /\ ~transport.built
    /\ transport' = NewProxy(cfg.dns, mainProxy(cfg), cfg)
    /\ UNCHANGED <<cfg, dial>>
    /\ UNCHANGED <<cachevars, ctxvars, pathvars>>

\* dnsResolver.LookupIP(ctx, name) is called: the first step is next.
StartLookup(d, name) ==
    [d EXCEPT !.pc = "lookup", !.lname = name, !.looked = Append(@, name),
              !.lstep = LookupSteps(transport.dnsResolver.kind)[1]]

\* dnsResolver.LookupIP has returned, and what its caller does next.  Both
\* callers fail the dial on an error.  The SOCKS5 wrapper hands the first
\* address to the SOCKS5 dialer; createDialer's Dial function connects to it
\* and returns the connection to Go's resolver, which sent it the address
\* of a name server and now sends its query over it.
LookupReturn(d, res, ips) ==
    LET r == [d EXCEPT !.lres = res, !.lctx = d.ctx, !.ips = ips, !.lstep = "none"]
    IN IF res = "err" THEN [r EXCEPT !.pc = "done", !.err = "resolve"]
       ELSE IF transport.DialContext = "dns+socks"
       THEN [r EXCEPT !.pc = "connect", !.via = "socks",
                      !.to = ResolvedAddr(d.address, ips)]
       ELSE [r EXCEPT !.pc = "query", !.nsconn = ResolvedAddr(ResolvConf, ips)]

\* transport.DialContext(ctx, "tcp", address): the transport asks for a
\* connection, to the HTTP proxy when one is set and to the upstream
\* otherwise.  net.Dialer connects to an IP literal at once and resolves a
\* name first, through dialer.Resolver when createDialer set one.
DialContext(address, hasDeadline) ==
    /\ transport.built
    /\ dial.pc \in {"idle", "done"}
    /\ address \in IF transport.Proxy.set THEN {transport.Proxy.Host}
                    ELSE UpstreamAddrs
    /\ LET d == [IdleDial EXCEPT !.address = address, !.hasDeadline = hasDeadline]
           sp == SplitHostPort(address)
       IN dial' =
            IF transport.DialContext = "socks"
            THEN [d EXCEPT !.pc = "connect", !.via = "socks", !.to = address]
            ELSE IF sp.err THEN [d EXCEPT !.pc = "done", !.err = "address"]
            ELSE IF transport.DialContext = "dns+socks"
            THEN StartLookup(d, sp.host)
            ELSE IF IsIP(sp.host)
            THEN [d EXCEPT !.pc = "connect", !.via = "direct", !.to = address]
            ELSE IF transport.dnsResolver = NoResolver
            THEN [d EXCEPT !.pc = "sysresolve"]
            ELSE StartLookup(d, SplitHostPort(ResolvConf).host)
    /\ UNCHANGED <<cfg, transport>>
    /\ UNCHANGED <<cachevars, ctxvars, pathvars>>

\* One step of dnsResolver.LookupIP(ctx, name).  StandardDNSResolver returns
\* an IP literal as it is, without any network step.
LookupIP ==
    /\ dial.pc = "lookup"
    /\ LET kind == transport.dnsResolver.kind
           steps == LookupSteps(kind)
           d == [dial EXCEPT !.lsteps = @ + 1]
       IN IF kind = "StandardDNSResolver" /\ IsIP(dial.lname)
          THEN dial' = LookupReturn(dial, "ok", <<dial.lname>>)
          ELSE IF \/ CtxStops(kind, dial.lstep, dial.ctx, dial.hasDeadline)
                  \/ dial.lstep = "connect" /\ ~ServerDialable(transport.dnsResolver)
          THEN dial' = LookupReturn(d, "err", <<>>)
          ELSE \/ dial' = LookupReturn(d, "err", <<>>)
               \/ \E i \in 1..(Len(steps) - 1) :
                     /\ steps[i] = dial.lstep
                     /\ dial' = [d EXCEPT !.lstep = steps[i + 1]]
               \/ /\ dial.lstep = steps[Len(steps)]
                  /\ \E ips \in AnswerLists : dial' = LookupReturn(d, "ok", ips)
    /\ UNCHANGED <<cfg, transport>>
    /\ UNCHANGED <<cachevars, ctxvars, pathvars>>

\* Go's built-in resolver sends its query for the dialled host over the
\* connection createDialer's Dial function returned.
Query ==
    /\ dial.pc = "query"
    /\ IF dial.ctx # "live"
       THEN dial' = [dial EXCEPT !.pc = "done", !.err = "resolve"]
       ELSE \/ dial' = [dial EXCEPT !.pc = "done", !.err = "resolve"]
            \/ \E ips \in AnswerLists :
                  dial' = [dial EXCEPT !.pc = "connect", !.via = "direct",
                                       !.answeredBy = dial.nsconn,
                                       !.to = ResolvedAddr(dial.address, ips)]
    /\ UNCHANGED <<cfg, transport>>
    /\ UNCHANGED <<cachevars, ctxvars, pathvars>>

\* net.Dialer without a Resolver: the system's resolution.
SysResolve ==
    /\ dial.pc = "sysresolve"
    /\ IF dial.ctx # "live"
       THEN dial' = [dial EXCEPT !.pc = "done", !.err = "resolve"]
       ELSE \/ dial' = [dial EXCEPT !.pc = "done", !.err = "resolve"]
            \/ \E ips \in AnswerLists :
                  dial' = [dial EXCEPT !.pc = "connect", !.via = "direct",
                                       !.answeredBy = ResolvConf,
                                       !.to = ResolvedAddr(dial.address, ips)]
    /\ UNCHANGED <<cfg, transport>>
    /\ UNCHANGED <<cachevars, ctxvars, pathvars>>

\* The connection itself: net.Dialer's connect, or the SOCKS5 dialer's
\* DialContext with the address it was handed.
Connect ==
    /\ dial.pc = "connect"
    /\ IF dial.ctx # "live"
       THEN dial' = [dial EXCEPT !.pc = "done", !.err = "connect"]
       ELSE \/ dial' = [dial EXCEPT !.pc = "done", !.err = "connect"]
            \/ dial' = [dial EXCEPT !.pc = "done"]
    /\ UNCHANGED <<cfg, transport>>
    /\ UNCHANGED <<cachevars, ctxvars, pathvars>>

\* The caller's context is cancelled, or its deadline passes.
CtxDone ==
    /\ dial.pc \notin {"idle", "done"}
    /\ dial.ctx = "live"
    /\ \/ dial' = [dial EXCEPT !.ctx = "cancelled"]
       \/ /\ dial.hasDeadline
          /\ dial' = [dial EXCEPT !.ctx = "expired"]
    /\ UNCHANGED <<cfg, transport>>
    /\ UNCHANGED <<cachevars, ctxvars, pathvars>>

\* ---------------------------------------------------------------- contexts
\* Timeouts in minutes: http.Client.Timeout of the shared client, and the
\* context.WithTimeout handleZip wraps the request's context in.
ClientTimeout == 5
ZipTimeout == 10
\* The clock stops here.
MaxMinutes == 11

\* The context the upstream request is built with is done: r.Context() for
\* the buffered verbs; for the archive verb a child of r.Context(), done when
\* its parent is cancelled or its own timeout has passed.
RequestCtxDone(f) ==
    \/ f.inbound = "cancelled"
    \/ f.verb = "zip" /\ f.minutes >= ZipTimeout

\* http.Client.Timeout has passed: the client cancels the exchange, the
\* reading of the body included.
ClientTimedOut(f) == f.minutes >= ClientTimeout

\* The transport gives up the exchange.
FetchDue(f) == RequestCtxDone(f) \/ ClientTimedOut(f)

\* The error the exchange ends with when it is given up.
FetchAbortCause(f) ==
    IF f.inbound = "cancelled" THEN "context canceled"
    ELSE IF ClientTimedOut(f) THEN "Client.Timeout exceeded"
    ELSE "context deadline exceeded"

\* A handler on a miss issues its upstream request: p.client.Do(req).
StartFetch(verb) ==
    /\ fetch.pc \in {"idle", "done"}
    /\ fetch' = [IdleFetch EXCEPT !.pc = "do", !.verb = verb]
    /\ UNCHANGED <<cachevars, netvars, pathvars>>

\* A minute passes while the exchange is in progress.
Minute ==
    /\ fetch.pc \in {"do", "body"}
    /\ ~FetchDue(fetch)
    /\ fetch.minutes < MaxMinutes
    /\ fetch' = [fetch EXCEPT !.minutes = @ + 1]
    /\ UNCHANGED <<cachevars, netvars, pathvars>>

\* The client of the inbound request gives up: r.Context() is cancelled.
ClientGone ==
    /\ fetch.pc \in {"do", "body"}
    /\ fetch.inbound = "live"
    /\ fetch' = [fetch EXCEPT !.inbound = "cancelled"]
    /\ UNCHANGED <<cachevars, netvars, pathvars>>

\* client.Do returns: the response headers, or an upstream failure.
FetchHeaders ==
    /\ fetch.pc = "do"
    /\ ~FetchDue(fetch)
    /\ \/ fetch' = [fetch EXCEPT !.pc = "body"]
       \/ fetch' = [fetch EXCEPT !.pc = "done", !.end = "error"]
    /\ UNCHANGED <<cachevars, netvars, pathvars>>

\* One chunk of the body arrives (io.ReadAll, or io.CopyBuffer's read), or
\* after the last chunk the end of the stream.
FetchBody ==
    /\ fetch.pc = "body"
    /\ ~FetchDue(fetch)
    /\ fetch' = IF fetch.got < ZipChunks
                THEN [fetch EXCEPT !.got = @ + 1]
                ELSE [fetch EXCEPT !.pc = "done", !.end = "ok"]
    /\ UNCHANGED <<cachevars, netvars, pathvars>>

\* The exchange is given up: client.Do or the pending body read returns
\* the error.
FetchAbort ==
    /\ fetch.pc \in {"do", "body"}
    /\ FetchDue(fetch)
    /\ fetch' = [fetch EXCEPT !.pc = "done", !.end = FetchAbortCause(fetch)]
    /\ UNCHANGED <<cachevars, netvars, pathvars>>

\* ------------------------------------------------------------ specification
Next ==
    \E p \in Procs :
        \/ \E method \in Methods, url \in URLPaths : HandleRequest(p, method, url)
        \/ RLock(p)
        \/ ReadCache(p)
        \/ ZipOpen(p)
        \/ RUnlock(p)
        \/ NewRequestFail(p)
        \/ Fetch(p)
        \/ Lock(p)
        \/ WriteCacheOpen(p)
        \/ WriteCacheWrite(p)
        \/ WriteCacheRename(p)
        \/ Unlock(p)
        \/ ZipStat(p)
        \/ ZipServe(p)
        \/ ZipFetch(p)
        \/ ZipCreate(p)
        \/ ZipCopyChunk(p)
        \/ ZipCopyFail(p)
        \/ ZipRename(p)
        \/ ZipRemove(p)

Spec == Init /\ [][Next]_vars

\* The steps of p's handler once net/http has called it.
HandlerStep(p) ==
    \/ RLock(p)
    \/ ReadCache(p)
    \/ ZipOpen(p)
    \/ RUnlock(p)
    \/ NewRequestFail(p)
    \/ Fetch(p)
    \/ Lock(p)
    \/ WriteCacheOpen(p)
    \/ WriteCacheWrite(p)
    \/ WriteCacheRename(p)
    \/ Unlock(p)
    \/ ZipStat(p)
    \/ ZipServe(p)
    \/ ZipFetch(p)
    \/ ZipCreate(p)
    \/ ZipCopyChunk(p)
    \/ ZipCopyFail(p)
    \/ ZipRename(p)
    \/ ZipRemove(p)

\* The same program under a scheduler that lets every handler goroutine
\* that can take a step take one in the end, with file-system calls and
\* upstream calls that all return.
SpecFair == Spec /\ \A p \in Procs : WF_vars(HandlerStep(p))

\* Every address a dial can be asked for: the upstream's, or the Host of
\* a proxy URL.
DialAddrs ==
    UpstreamAddrs \cup
        {urlParse(u).Host : u \in FlagProxies \cup {EnvHTTP, EnvHTTPS}}

\* Construction of the transport from any of the settings, then its dials.
NextNet ==
    \/ NewProxyStep
    \/ \E address \in DialAddrs, hasDeadline \in BOOLEAN :
          DialContext(address, hasDeadline)
    \/ LookupIP
    \/ Query
    \/ SysResolve
    \/ Connect
    \/ CtxDone

SpecNet == InitNet /\ [][NextNet]_vars

\* One upstream exchange after another, of any verb, against the clock and
\* the inbound client.
NextCtx ==
    \/ \E verb \in Buffered \cup {"zip"} : StartFetch(verb)
    \/ Minute
    \/ ClientGone
    \/ FetchHeaders
    \/ FetchBody
    \/ FetchAbort

SpecCtx == Init /\ [][NextCtx]_vars

\* ------------------------------------------------------------------ views
ZipKeys == {k \in VerbKeys : Route(k) = "zip"}
BufferedKeys == {k \in VerbKeys : Route(k) \in Buffered}

\* What a reader of each final cache path would find.
FinalView == [f \in FinalPaths |-> readCache(f)]

\* The bodies a buffered handler hands to writeCache.
Cacheable(verb) ==
    IF verb = "info"
    THEN {b \in InfoBodies : JSONKind(b) \in {"object", "null"}}
    ELSE UpstreamBodies(verb)

\* ---------------------------------------------------- requests on the tree
\* A ServeMux that hands every path to its handler as it came.
cleanPathAsIs(p) == p

\* net/http's cleanPath: the canonical form of a request path.  The
\* ServeMux answers a request whose path differs from it with a redirect
\* to it and does not call the handler.
cleanPath(p) ==
    IF p = <<>> THEN <<"/">>
    ELSE LET q == IF p[1] # "/" THEN <<"/">> \o p ELSE p
             np == Clean(q)
         IN IF q[Len(q)] = "/" /\ np # <<"/">>
            THEN IF Len(q) = Len(np) + 1 /\ HasPrefix(q, np) THEN q
                 ELSE np \o <<"/">>
            ELSE np

\* The bodies upstream answers with on the tree: always 200, and for the
\* info verb always a body the validation accepts.
TreeBodies(verb) == IF verb = "zip" THEN {ZipBody} ELSE Cacheable(verb)

\* handleList, handleInfo, handleMod from call to return, on tree t, with
\* upstream answering 200 and body b: the tree afterwards, the response,
\* the path looked up and the paths read, made or written.
treeBuffered(t, key, b) ==
    LET final == cachePath(cacheDir, key)
        tmp == TmpOf(final)
        got == osReadFile(t, final)
        mk == osMkdirAll(t, filepathDir(final))
        wr == osWriteFile(mk.fs, tmp, b)
        rn == osRename(wr.fs, tmp, final)
    IN IF ~got.err
       THEN [fs |-> t, status |-> StatusOK, body |-> got.data, hit |-> TRUE,
             looked |-> final, touched |-> {final}]
       ELSE IF ~NewRequestOK(UpstreamURL(key))
       THEN [fs |-> t, status |-> StatusInternalServerError, body |-> <<>>,
             hit |-> FALSE, looked |-> final, touched |-> {final}]
       ELSE [fs |-> IF mk.err THEN t ELSE IF wr.err THEN mk.fs ELSE rn.fs,
             status |-> StatusOK, body |-> b, hit |-> FALSE, looked |-> final,
             touched |-> IF mk.err THEN {final}
                         ELSE {final, tmp} \cup mk.made]

\* handleZip from call to return, on tree t, with upstream answering 200
\* and streaming the whole archive.  A directory at the final path opens
\* and stats like a file; copying from it fails at the first read.
treeZip(t, key) ==
    LET final == cachePath(cacheDir, key)
        tmp == TmpOf(final)
        op == osOpen(t, final)
        mk == osMkdirAll(t, filepathDir(final))
        cr == osWriteFile(mk.fs, tmp, ZipBody)
        rn == osRename(cr.fs, tmp, final)
    IN IF ~op.err
       THEN [fs |-> t, status |-> StatusOK,
             body |-> IF t[final].kind = "file" THEN t[final].data ELSE <<>>,
             hit |-> TRUE, looked |-> final, touched |-> {final}]
       ELSE IF ~NewRequestOK(UpstreamURL(key)) \/ mk.err
       THEN [fs |-> t, status |-> StatusInternalServerError, body |-> <<>>,
             hit |-> FALSE, looked |-> final, touched |-> {final}]
       ELSE IF cr.err
       THEN [fs |-> mk.fs, status |-> StatusInternalServerError, body |-> <<>>,
             hit |-> FALSE, looked |-> final,
             touched |-> {final, tmp} \cup mk.made]
       ELSE [fs |-> IF rn.err THEN osRemove(cr.fs, tmp) ELSE rn.fs,
             status |-> StatusOK, body |-> ZipBody, hit |-> FALSE,
             looked |-> final, touched |-> {final, tmp} \cup mk.made]

\* One request from the ServeMux to the handler's return, alone on the
\* tree: the mux's redirect of a path that is not clean, else HandleRequest
\* and the handler it routes to.
ServeHTTP(method, url) ==
    LET path == TrimPrefix(url, <<"/">>)
        r == [NoRequest EXCEPT !.method = method, !.url = url]
        h == [r EXCEPT !.handler = "HandleRequest", !.key = path]
    IN /\ IF cleanPath(url) # url
          THEN /\ last' = [r EXCEPT !.handler = "redirect", !.status = 301]
               /\ fs' = fs
          ELSE IF method # "GET"
          THEN /\ last' = [h EXCEPT !.status = StatusMethodNotAllowed]
               /\ fs' = fs
          ELSE IF path \in HealthPaths
          THEN /\ last' = [h EXCEPT !.route = "health", !.status = StatusOK,
                                    !.body = HealthBody]
               /\ fs' = fs
          ELSE IF Route(path) = "notfound"
          THEN /\ last' = [h EXCEPT !.route = "notfound", !.status = StatusNotFound]
               /\ fs' = fs
          ELSE \E b \in TreeBodies(Route(path)) :
                  LET o == IF Route(path) = "zip" THEN treeZip(fs, path)
                           ELSE treeBuffered(fs, path, b)
                  IN /\ fs' = o.fs
                     /\ last' = [h EXCEPT !.route = Route(path),
                                         !.status = o.status, !.body = o.body,
                                         !.hit = o.hit, !.looked = o.looked,
                                         !.touched = o.touched]
       /\ UNCHANGED <<cachevars, netvars, ctxvars>>

\* Requests one after another on the file tree.
NextTree == \E method \in Methods, url \in TreeURLs : ServeHTTP(method, url)

SpecTree == Init /\ [][NextTree]_vars

\* ------------------------------------------------------------- properties
\* C1: for the archive verb, at every instant the file at the final cache
\* path is either absent or byte-identical to one complete upstream
\* payload, whatever the interleaving of requests for the key.
C1_ZipFinalAlwaysComplete ==
    \A k \in ZipKeys :
        LET got == readCache(cachePath(cacheDir, k))
        IN got.err \/ got.data \in UpstreamBodies("zip")

\* C2: a buffered-verb cache read that hits returns a complete payload that
\* was handed to writeCache for the key, never a partial prefix of one, also
\* while another request for the key is about to write.
C2_BufferedReadNeverPartial ==
    \A p \in Procs :
        (req[p].pc \in {"runlock", "done"} /\ Verb(p) \in Buffered /\ req[p].hit)
            => req[p].seen \in Cacheable(Verb(p))

\* A reader has just read the old complete content under RLock while a
\* request holding different new content for the same key waits to write.
C2_Witness ==
    \E r \in Procs, w \in Procs :
        /\ r # w
        /\ req[r].key = req[w].key
        /\ Verb(r) = "list"
        /\ req[r].pc = "runlock" /\ req[r].hit
        /\ req[w].pc = "lock"
        /\ req[w].data # req[r].seen

\* The two requests p and q are the only ones so far, both for the same
\* archive key, both missed, both received the whole payload from upstream,
\* no file-system call failed for a reason of its own, and both returned.
TwoZipMisses(p, q) ==
    /\ p # q
    /\ started = 2
    /\ \A x \in {p, q} :
          /\ req[x].pc = "done"
          /\ Route(req[x].key) = "zip"
          /\ req[x].key = req[p].key
          /\ ~req[x].hit
          /\ req[x].gets = 1 /\ req[x].upstatus = 200
          /\ req[x].failAt = NoFail
          /\ req[x].fault \in {"none", "enoent"}

\* C3: two concurrent first requests for one archive key whose fetches both
\* deliver the whole payload both answer 200 with the whole payload, and
\* once both returned the final cache file is the payload.
C3_TwoConcurrentZipBothSucceed ==
    \A p \in Procs, q \in Procs :
        TwoZipMisses(p, q) =>
            /\ \A x \in {p, q} : req[x].status = 200 /\ req[x].body = ZipBody
            /\ readCache(Final(p)) = [err |-> FALSE, data |-> ZipBody]

\* Both returned, and they shared the temporary file: the second rename
\* found it already moved.
C3_Witness ==
    \E p \in Procs, q \in Procs :
        /\ TwoZipMisses(p, q)
        /\ req[p].fault = "none"
        /\ req[q].fault = "enoent"

\* C4: a request whose archive stream breaks removes the temporary file,
\* never renames it, and none of its steps changes what is at any final
\* cache path.
C4_FailedZipLeavesFinalUntouched ==
    [][\A p \in Procs :
          (req[p].failAt # NoFail /\ req'[p] # req[p]) =>
              /\ FinalView' = FinalView
              /\ (req'[p].fault = "stream" /\ req'[p].pc = "done") =>
                    ("remove" \in req'[p].ops /\ "rename" \notin req'[p].ops)]_vars

\* C5: when writeCache(K, P) has returned without error, readCache(K)
\* returns exactly P (the writer still holds the lock, so no other write
\* to K has intervened).
C5_WriteThenReadRoundTrip ==
    \A p \in Procs :
        (req[p].pc = "unlock" /\ req[p].fault = "none")
            => readCache(Final(p)) = [err |-> FALSE, data |-> req[p].data]

\* writeCache has just replaced older, different content of the key.
C5_Witness ==
    \E p \in Procs, q \in Procs :
        /\ req[p].pc = "unlock" /\ req[p].fault = "none"
        /\ req[q].pc = "done" /\ req[q].key = req[p].key
        /\ req[q].fault = "none" /\ ~req[q].hit
        /\ req[q].body # req[p].data

\* C6: for every verb, a request whose lookup found a stored artifact
\* answers 200 with exactly the bytes that were stored when it looked,
\* issues no upstream request and does not touch the cache.
C6_HitServesStoredBytes ==
    \A p \in Procs :
        (req[p].pc = "done" /\ req[p].hit) =>
            /\ req[p].status = StatusOK
            /\ req[p].body = req[p].seen
            /\ req[p].gets = 0
            /\ req[p].ops = {}

\* C7: for every verb, a miss that upstream answers with a non-success
\* status S ends the request at once with status S, after exactly one
\* upstream request and without any file-system write by the request.
C7_UpstreamStatusPassthrough ==
    \A p \in Procs :
        req[p].fault = "status" =>
            /\ req[p].pc = "done"
            /\ req[p].upstatus # StatusOK
            /\ req[p].status = req[p].upstatus
            /\ req[p].gets = 1
            /\ req[p].ops = {}

\* Upstream answered 404 for the manifest and the caller got 404.
C7_Witness ==
    \E p \in Procs :
        /\ Verb(p) = "mod"
        /\ req[p].fault = "status"
        /\ req[p].status = StatusNotFound

\* The info request p has fetched a 200 response and read its whole body.
InfoFetched(p) ==
    /\ Verb(p) = "info"
    /\ req[p].gets = 1
    /\ req[p].upstatus = StatusOK
    /\ req[p].fault # "read"

\* C8 (as specified): an info miss whose 200 body is not a JSON object is
\* answered 502 and the request writes nothing to the cache.
C8_NonObjectInfoIsBadGateway ==
    \A p \in Procs :
        (InfoFetched(p) /\ JSONKind(req[p].data) # "object") =>
            /\ req[p].pc = "done"
            /\ req[p].status = StatusBadGateway
            /\ req[p].ops = {}

\* C8 (amended): an info miss whose 200 body is neither a JSON object nor
\* the JSON literal null is answered 502 and the request writes nothing to
\* the cache; an info request that touches the cache has fetched a body
\* that is a JSON object or null.
C8_RejectedInfoIsBadGateway ==
    \A p \in Procs :
        /\ (InfoFetched(p) /\ JSONKind(req[p].data) \notin {"object", "null"}) =>
              /\ req[p].pc = "done"
              /\ req[p].status = StatusBadGateway
              /\ req[p].ops = {}
        /\ (Verb(p) = "info" /\ req[p].ops # {}) =>
              (InfoFetched(p) /\ JSONKind(req[p].data) \in {"object", "null"})

\* Upstream answered 200 with a body that is not JSON; the caller got 502.
C8_Witness ==
    \E p \in Procs :
        /\ InfoFetched(p)
        /\ req[p].data = NotJSON
        /\ req[p].pc = "done"
        /\ req[p].status = StatusBadGateway

\* The archive request p returned after its stream broke (no file-system
\* call of its own failed first).
StreamBroke(p) ==
    /\ Verb(p) = "zip"
    /\ req[p].pc = "done"
    /\ req[p].failAt # NoFail
    /\ req[p].fault \notin {"mkdir", "create", "write"}

PersistFaults == {"mkdir", "create", "write", "rename", "enoent"}

\* C10 (as specified): for each verb, when fetch and validation succeeded but
\* persisting failed, the caller still gets the fetched content with 200.
C10_PersistFailureSwallowed ==
    \A p \in Procs :
        (req[p].pc = "done" /\ req[p].fault \in PersistFaults) =>
            /\ req[p].status = StatusOK
            /\ req[p].body = req[p].data

\* C10 (amended): for the buffered verbs every persist failure is swallowed
\* (200 with the fetched content).  For the archive verb only a failed
\* rename is swallowed; a failed directory or temporary-file creation is
\* answered 500 with no content, and a failed write to the temporary file
\* ends the stream, the caller keeping status 200 and the chunks sent up to
\* and including the one whose write failed.
C10_PersistFailureOutcome ==
    \A p \in Procs :
        (req[p].pc = "done" /\ req[p].fault \in PersistFaults) =>
            IF Verb(p) \in Buffered \/ req[p].fault \in {"rename", "enoent"}
            THEN req[p].status = StatusOK /\ req[p].body = req[p].data
            ELSE IF req[p].fault \in {"mkdir", "create"}
            THEN req[p].status = StatusInternalServerError /\ req[p].body = <<>>
            ELSE /\ req[p].status = StatusOK
                 /\ \E n \in 1..ZipChunks :
                       req[p].body = SubSeq(req[p].data, 1, n)

\* A buffered request answered 200 with the content after its rename
\* failed, and an archive request answered 500 after os.Create failed.
C10_Witness ==
    \E p \in Procs, q \in Procs :
        /\ req[p].pc = "done" /\ Verb(p) \in Buffered
        /\ req[p].fault = "rename" /\ req[p].status = StatusOK
        /\ req[q].pc = "done" /\ Verb(q) = "zip"
        /\ req[q].fault = "create" /\ req[q].status = StatusInternalServerError

\* The request p went through the router to one of the four verb handlers.
Handled(p) ==
    /\ req[p].pc # "idle"
    /\ req[p].method = "GET"
    /\ Route(req[p].key) # "notfound"

\* C11 (as specified): a handled request issues exactly one upstream GET, to
\* <upstream>/<key>, when its lookup missed and none when it hit, and every
\* failure it meets ends it with an error status for the caller.
C11_EveryFailureReported ==
    \A p \in Procs :
        (Handled(p) /\ req[p].pc = "done") =>
            /\ req[p].gets = IF req[p].hit THEN 0 ELSE 1
            /\ req[p].gets = 1 => req[p].url = <<"u", "/">> \o req[p].key
            /\ req[p].fault # "none" => req[p].status >= 400

\* C11 (amended): a handled request never issues a second upstream GET; it
\* issues none when served from the cache or when the upstream URL does not
\* parse, and otherwise exactly one, to <upstream>/<key>, when its lookup
\* missed (or the archive it opened could not be stat'ed); it touches the
\* cache only after a 200 response.  An unparsable URL, a failed fetch, a
\* non-200 status, a failed body read or JSON validation and a failed
\* creation of the archive's directory or temporary file end the request
\* with an error status and no content; every other failure (a buffered
\* verb's writeCache, the archive's stat, stream, temporary-file write or
\* rename) leaves the caller with status 200.
C11_RequestMachine ==
    \A p \in Procs :
        Handled(p) =>
            /\ req[p].gets <= 1
            /\ req[p].hit => req[p].gets = 0
            /\ req[p].gets = 1 => req[p].url = <<"u", "/">> \o req[p].key
            /\ req[p].ops # {} =>
                  (req[p].gets = 1 /\ req[p].upstatus = StatusOK /\ ~req[p].hit)
            /\ req[p].pc = "done" =>
                  /\ req[p].gets =
                        IF req[p].hit \/ req[p].fault = "newreq" THEN 0 ELSE 1
                  /\ req[p].fault = "newreq" <=> "%" \in Range(req[p].key)
                  /\ IF \/ req[p].fault \in {"newreq", "do", "status", "read", "json"}
                        \/ Verb(p) = "zip" /\ req[p].fault \in {"mkdir", "create"}
                     THEN req[p].status >= 400 /\ req[p].body = <<>>
                     ELSE req[p].status = StatusOK

\* One request was served from the cache without an upstream GET while
\* another, whose single GET failed, was answered 502.
C11_Witness ==
    \E p \in Procs, q \in Procs :
        /\ Handled(p) /\ req[p].pc = "done" /\ req[p].hit /\ req[p].gets = 0
        /\ Handled(q) /\ req[q].pc = "done" /\ req[q].fault = "do"
        /\ req[q].gets = 1 /\ req[q].status = StatusBadGateway

\* The verbs whose suffix the key ends in.
SuffixVerbs(key) ==
    {v \in {"list", "info", "mod", "zip"} :
        HasSuffix(key, CASE v = "list" -> <<"/", "@", "v", "/", "l", "i", "s", "t">>
                         [] v = "info" -> <<".", "i", "n", "f", "o">>
                         [] v = "mod" -> <<".", "m", "o", "d">>
                         [] v = "zip" -> <<".", "z", "i", "p">>)}

\* C12 (as specified): every non-GET request is answered 405; a GET whose
\* key (the path without its leading slash) ends in one of the four
\* suffixes goes to that verb's handler, and only one suffix can match;
\* every other GET is answered 404.
C12_RouterTotal ==
    \A p \in Procs :
        req[p].pc # "idle" =>
            /\ req[p].key = <<>> \/ req[p].key[1] # "/"
            /\ Cardinality(SuffixVerbs(req[p].key)) <= 1
            /\ IF req[p].method # "GET"
               THEN req[p].pc = "done" /\ req[p].status = StatusMethodNotAllowed
               ELSE IF SuffixVerbs(req[p].key) = {}
               THEN req[p].pc = "done" /\ req[p].status = StatusNotFound
               ELSE Verb(p) \in SuffixVerbs(req[p].key) /\ req[p].fault # "route"

\* C12 (amended): as specified, except that a GET of the liveness paths
\* health and healthz is answered 200 with the fixed payload instead of 404.
C12_RouterTotalButHealth ==
    \A p \in Procs :
        req[p].pc # "idle" =>
            /\ req[p].key = <<>> \/ req[p].key[1] # "/"
            /\ Cardinality(SuffixVerbs(req[p].key)) <= 1
            /\ IF req[p].method # "GET"
               THEN req[p].pc = "done" /\ req[p].status = StatusMethodNotAllowed
               ELSE IF req[p].key \in {<<"h", "e", "a", "l", "t", "h">>,
                                       <<"h", "e", "a", "l", "t", "h", "z">>}
               THEN /\ req[p].pc = "done" /\ req[p].status = StatusOK
                    /\ req[p].body = HealthBody
               ELSE IF SuffixVerbs(req[p].key) = {}
               THEN req[p].pc = "done" /\ req[p].status = StatusNotFound
               ELSE Verb(p) \in SuffixVerbs(req[p].key) /\ req[p].fault # "route"

\* A POST of an archive path was answered 405 and a GET of a manifest path
\* is in the manifest handler.
C12_Witness ==
    \E p \in Procs, q \in Procs :
        /\ req[p].method = "POST" /\ SuffixVerbs(req[p].key) = {"zip"}
        /\ req[p].status = StatusMethodNotAllowed
        /\ req[q].method = "GET" /\ SuffixVerbs(req[q].key) = {"mod"}
        /\ req[q].pc = "lock"

\* C13: no step of any request removes the file at a final cache path (the
\* set of cached keys only grows), and every path a step removes or renames
\* away is a temporary .tmp path.
C13_CacheOnlyGrows ==
    [][/\ \A f \in FinalPaths : dir[f] # NoInode => dir'[f] # NoInode
       /\ \A f \in Paths :
             (dir[f] # NoInode /\ dir'[f] = NoInode) =>
                 HasSuffix(f, <<".", "t", "m", "p">>)]_vars

\* An archive request lost the race for the shared temporary file, removed
\* the temporary name and returned; the artifact is still in place.
C13_Witness ==
    \E p \in Procs :
        /\ req[p].pc = "done" /\ Verb(p) = "zip"
        /\ req[p].fault = "enoent" /\ "remove" \in req[p].ops
        /\ cacheExists(Final(p))

\* C14: for all four verbs, a request that is about to read the cache (the
\* lookup, the stat and the streaming of a cached archive) holds the lock
\* shared, and a request that is about to create, write or rename a
\* temporary cache file holds it exclusively.
C14_CacheAccessUnderLock ==
    \A p \in Procs :
        /\ req[p].pc \in {"read", "open", "stat", "serve"} => p \in readers
        /\ req[p].pc \in {"wopen", "wwrite", "wrename", "zcreate", "zcopy"} =>
              writer = p

\* C15: createDNSResolver never fails and dispatches on the prefix: none for
\* the empty string, DoH on the whole string for https://, DoQ for quic://
\* and DoT for tls:// on the remainder with :853 appended when it holds no
\* port, and standard DNS otherwise (udp:// stripped) with :53 appended
\* when it holds no port; "8.8.8.8" gives 8.8.8.8:53 and "tls://1.1.1.1"
\* gives 1.1.1.1:853.
C15_ResolverDispatch ==
    transport.built =>
        LET d == cfg.dns
            r == transport.dnsResolver
            port(rest, p) == IF SplitHostPort(rest).err THEN rest \o p ELSE rest
        IN /\ d = <<"8", ".", "8", ".", "8", ".", "8">> =>
                 r = [kind |-> "StandardDNSResolver", server |-> <<"8", ".", "8", ".", "8", ".", "8", ":", "5", "3">>]
           /\ d = <<"t", "l", "s", ":", "/", "/", "1", ".", "1", ".", "1", ".", "1">> =>
                 r = [kind |-> "DoTResolver", server |-> <<"1", ".", "1", ".", "1", ".", "1", ":", "8", "5", "3">>]
           /\ IF d = <<>> THEN r = NoResolver
              ELSE IF HasPrefix(d, <<"h", "t", "t", "p", "s", ":", "/", "/">>)
              THEN r = [kind |-> "DoHResolver", server |-> d]
              ELSE IF HasPrefix(d, <<"q", "u", "i", "c", ":", "/", "/">>)
              THEN r = [kind |-> "DoQResolver",
                        server |-> port(SubSeq(d, 8, Len(d)), <<":", "8", "5", "3">>)]
              ELSE IF HasPrefix(d, <<"t", "l", "s", ":", "/", "/">>)
              THEN r = [kind |-> "DoTResolver",
                        server |-> port(SubSeq(d, 7, Len(d)), <<":", "8", "5", "3">>)]
              ELSE r = [kind |-> "StandardDNSResolver",
                        server |-> port(IF HasPrefix(d, <<"u", "d", "p", ":", "/", "/">>)
                                        THEN SubSeq(d, 7, Len(d)) ELSE d, <<":", "5", "3">>)]

\* C16: with a resolver configured and no SOCKS5 proxy, a dial of a host
\* name looks exactly that name up through the resolver, fails when the
\* lookup fails, and otherwise connects to the first address the resolver
\* returned.
C16_DialResolvesThroughResolver ==
    LET sp == SplitHostPort(dial.address)
    IN (/\ dial.pc = "done"
        /\ transport.dnsResolver # NoResolver
        /\ transport.DialContext = "dialer"
        /\ ~sp.err /\ ~IsIP(sp.host)) =>
           /\ dial.looked = <<sp.host>>
           /\ dial.lres = "err" => dial.err = "resolve"
           /\ dial.err = "none" => dial.to = JoinHostPort(dial.ips[1], sp.port)

IgnoredProxies == {ProxyFTP, ProxyNoSlashes, ProxyBareAddr, ProxyBadPort}

\* C18: with a -proxy value that is malformed or of an unsupported scheme,
\* NewProxy still builds the transport and it is the one built when no
\* proxy is configured at all: no transport.Proxy, createDialer's dialer
\* with the same resolver, and every dial goes for the upstream directly.
C18_IgnoredProxyDialsDirect ==
    (transport.built /\ cfg.flag \in IgnoredProxies) =>
        LET n == NewProxy(cfg.dns, <<>>, DefaultCfg)
        IN /\ ~transport.Proxy.set
           /\ transport.DialContext = "dialer"
           /\ transport.Proxy = n.Proxy
           /\ transport.DialContext = n.DialContext
           /\ transport.dnsResolver = n.dnsResolver
           /\ transport.socksAddr = n.socksAddr
           /\ dial.pc # "idle" =>
                 (dial.address \in UpstreamAddrs /\ dial.via # "socks")

\* The -proxy value does not parse while HTTP_PROXY is set: the proxy is
\* ignored and a direct dial of the upstream succeeded.
C18_Witness ==
    /\ cfg.flag = ProxyBadPort /\ cfg.HTTP_PROXY = EnvHTTP
    /\ transport.built
    /\ dial.pc = "done" /\ dial.err = "none" /\ dial.via = "direct"

\* C19: the proxy string NewProxy works with is the first non-empty of the
\* -proxy flag, HTTP_PROXY, HTTPS_PROXY and SOCKS5_PROXY, in this order;
\* when all four are empty no proxy is used.
C19_ProxyPrecedence ==
    transport.built =>
        LET order == <<cfg.flag, cfg.HTTP_PROXY, cfg.HTTPS_PROXY, cfg.SOCKS5_PROXY>>
        IN IF \A i \in 1..4 : order[i] = <<>>
           THEN /\ transport.proxyURL = <<>>
                /\ ~transport.Proxy.set
                /\ transport.DialContext = "dialer"
           ELSE \E i \in 1..4 :
                   /\ order[i] # <<>>
                   /\ \A j \in 1..(i - 1) : order[j] = <<>>
                   /\ transport.proxyURL = order[i]

\* No flag and no HTTP_PROXY, both HTTPS_PROXY and SOCKS5_PROXY set: the
\* transport uses the HTTPS_PROXY value as its HTTP proxy.
C19_Witness ==
    /\ transport.built
    /\ cfg.flag = <<>> /\ cfg.HTTP_PROXY = <<>>
    /\ cfg.HTTPS_PROXY = EnvHTTPS /\ cfg.SOCKS5_PROXY = EnvSOCKS5
    /\ transport.proxyURL = EnvHTTPS
    /\ transport.Proxy = [set |-> TRUE, Host |-> <<"t", ":", "1">>]

\* C20: for each resolver variant, a LookupIP call that made at least one
\* network step and whose context was cancelled or had expired by the time
\* it returned has returned an error.
C20_LookupHonoursContext ==
    (dial.lres # "none" /\ dial.lsteps > 0 /\ dial.lctx # "live") =>
        dial.lres = "err"

\* C21: an archive fetch that was given up was given up by its own timeout,
\* ZipTimeout minutes after it began, and never because the inbound request
\* was cancelled.
C21_ZipFetchIndependent ==
    (fetch.verb = "zip" /\ fetch.pc = "done" /\ fetch.end \notin {"ok", "error"}) =>
        /\ fetch.end = "context deadline exceeded"
        /\ fetch.minutes >= ZipTimeout

\* The lookup of p's request is over: the handler is past RUnlock.
LookedUp(p) == req[p].pc \notin {"idle", "rlock", "read", "open", "runlock"}

C23_NoLockAcrossFetchOrServe ==
    \A p \in Procs :
        /\ p \in readers => req[p].pc \in {"read", "open", "runlock"}
        /\ writer = p => req[p].pc \in {"wopen", "wwrite", "wrename", "unlock"}
        /\ (req[p].pc \in {"fetch", "zcreate", "zcopy", "serve", "done"}
               \/ req[p].body # <<>>) =>
              (p \notin readers /\ writer # p)

\* One handler is streaming a fetched archive to its client while another
\* holds the write lock for its own writeCache.
C23_Witness ==
    \E p, q \in Procs :
        /\ req[p].pc = "zcopy" /\ req[p].body # <<>> /\ req[p].gets = 1
        /\ writer = q /\ req[q].pc = "wwrite"

\* The handlers inside writeCache's critical section.
Writing == {p \in Procs : req[p].pc \in {"wopen", "wwrite", "wrename", "unlock"}}

\* p's handler has its upstream answer: 200, and for a buffered verb the
\* body read and accepted.
Fetched(p) ==
    /\ Verb(p) # "notfound" /\ ~req[p].hit
    /\ req[p].upstatus = StatusOK
    /\ req[p].fault \notin {"read", "json"}

\* This step is writeCache's rename by p succeeding.
RenamesBuffered(p) ==
    /\ req[p].pc = "wrename"
    /\ "rename" \in req'[p].ops

\* C24: requests are not coalesced.  Every request whose lookup missed
\* makes an upstream GET of its own and, once it has its answer, a cache
\* write of its own.  For the buffered verbs at most one handler is inside
\* writeCache at a time, a final file changes only when some handler's
\* rename succeeds, and it then holds that handler's complete payload.
C24_NoSingleFlight ==
    /\ [](\A p \in Procs :
            /\ (Verb(p) # "notfound" /\ ~req[p].hit /\ req[p].upstatus # 0) =>
                  req[p].gets = 1
            /\ (Fetched(p) /\ req[p].pc = "done") =>
                  \/ "create" \in req[p].ops
                  \/ req[p].fault \in {"mkdir", "create"})
    /\ [](Cardinality(Writing) <= 1)
    /\ [][\A k \in BufferedKeys :
            LET f == FinalOf[k]
            IN readCache(f)' # readCache(f) =>
                 \E p \in Procs :
                    /\ Final(p) = f
                    /\ RenamesBuffered(p)
                    /\ readCache(f)' = [err |-> FALSE, data |-> req[p].data]]_vars

\* Two requests for the same list both missed, fetched different version
\* lists and both renamed; the file holds the list of one of them.
C24_Witness ==
    \E p, q \in Procs :
        /\ p # q /\ req[p].key = req[q].key /\ Verb(p) = "list"
        /\ req[p].pc = "done" /\ req[q].pc = "done"
        /\ ~req[p].hit /\ ~req[q].hit
        /\ req[p].gets = 1 /\ req[q].gets = 1
        /\ "rename" \in req[p].ops /\ "rename" \in req[q].ops
        /\ req[p].data # req[q].data
        /\ readCache(Final(p)).data = req[q].data

\* p's handler has been called and has not returned.
InFlight(p) == req[p].pc \notin {"idle", "done"}

\* C25: every handler that was called returns in the end, whatever other
\* requests run beside it (no handler stays in flight for ever: again and
\* again it is idle or done), and whenever no handler is in flight nobody
\* holds p.mu.
C25_EveryRequestFinishes ==
    /\ \A p \in Procs : []<>(~InFlight(p))
    /\ []((\A p \in Procs : ~InFlight(p)) => (writer = 0 /\ readers = {}))

\* Two requests for the same list were in flight together, one waiting for
\* the lock the other held, and both have returned.
C25_Witness ==
    \E p, q \in Procs :
        /\ p # q /\ req[p].key = req[q].key /\ Verb(p) = "list"
        /\ req[p].pc = "done" /\ req[q].pc = "done"
        /\ "rename" \in req[p].ops /\ "rename" \in req[q].ops
        /\ writer = 0 /\ readers = {}
        /\ started = MaxReqs

\* C26: whenever no request is in flight, no temporary file exists in the
\* cache directory.
C26_NoTmpLeftBehind ==
    (\A p \in Procs : ~InFlight(p)) =>
        \A f \in FinalPaths : dir[TmpOf(f)] = NoInode

\* The verbs that have a handler with a cache lookup.
Verbs == Buffered \cup {"zip"}

\* The requests of the tree that the ServeMux hands to HandleRequest.
TreeKeys == {TrimPrefix(u, <<"/">>) : u \in {v \in TreeURLs : cleanPath(v) = v}}

\* C27: every key the router passes to a verb ends in /@v/list, .info, .mod
\* or .zip, and the path its lookup reads is never the temporary path (a
\* final path plus .tmp) of any request the router passes to a verb.
C27_TmpNeverLookedUp ==
    last.route \in Verbs =>
        /\ \/ HasSuffix(last.key, <<"/", "@", "v", "/", "l", "i", "s", "t">>)
           \/ HasSuffix(last.key, <<".", "i", "n", "f", "o">>)
           \/ HasSuffix(last.key, <<".", "m", "o", "d">>)
           \/ HasSuffix(last.key, <<".", "z", "i", "p">>)
        /\ last.looked = cachePath(cacheDir, last.key)
        /\ \A k \in TreeKeys :
              Route(k) \in Verbs => last.looked # TmpOf(cachePath(cacheDir, k))

\* A temporary file of the version list was left in the cache directory,
\* and the request for its very name was answered 404 without a lookup.
C27_Witness ==
    /\ fs[TmpOf(cachePath(cacheDir, TrimPrefix(TreeList, <<"/">>)))].kind = "file"
    /\ last.url = TreeTmpName
    /\ last.handler = "HandleRequest"
    /\ last.status = StatusNotFound
    /\ last.touched = {}

\* C28: caching of distinct keys is independent: whatever was stored for
\* other keys before (also for a key whose path is a proper path prefix of
\* this one's, or runs through this one's), a request the router passes to
\* a verb, with upstream answering 200, is served a complete payload, and
\* afterwards its artifact is stored at its final path, where the next
\* lookup hits.
C28_KeysIndependent ==
    last.route \in Verbs =>
        /\ last.status = StatusOK
        /\ last.body \in TreeBodies(last.route)
        /\ ~osReadFile(fs, last.looked).err
        /\ osReadFile(fs, last.looked).data \in TreeBodies(last.route)

\* C29: for every request path that HandleRequest routes to a verb, every
\* file the request reads, creates, renames or deletes lies under the cache
\* root directory; a path with a . or .. element or a doubled slash is
\* answered by the ServeMux and touches no file at all.
C29_UnderCacheRoot ==
    /\ last.route \in Verbs =>
          \A f \in last.touched \cup {last.looked} :
              HasPrefix(f, cacheDir \o <<"/">>)
    /\ last.url \in {TreeDotDot, TreeDot, TreeDouble} => last.touched = {}
    /\ \A f \in TreePaths :
          fs[f].kind = "file" => HasPrefix(f, cacheDir \o <<"/">>)

\* A go.mod request missed, was fetched and stored: it looked up its final
\* path, wrote its temporary file and renamed it, all under the cache root.
C29_Witness ==
    /\ last.url = TreeMod
    /\ last.route = "mod"
    /\ ~last.hit
    /\ last.looked = cacheDir \o TreeMod
    /\ TmpOf(last.looked) \in last.touched
    /\ fs[last.looked].kind = "file"

====
